---- MODULE Spec2Model ----
(***************************************************************************)
(* Keyword counter: the per-language lexical scanners (count_keywords),    *)
(* the directory walkers (analyze_directory), the aggregation done by      *)
(* KeywordAnalyzer::analyze_path and AnalysisResult::add_file, and the two *)
(* front ends: the command line (parse_args) and the HTTP handler          *)
(* analyze_repository.                                                     *)
(*                                                                         *)
(* A text is a tuple of one-character strings; a token and a keyword are   *)
(* strings.  A HashMap<String, usize> is a function whose domain is the    *)
(* set of keys present.                                                    *)
(***************************************************************************)
EXTENDS Integers, Sequences, FiniteSets, TLC

VARIABLES
  mode,      \* the entry point exercised: "scan", "walk", "build", "cli", "api",
             \* "serve"
  lang,      \* Language selected for the run
  content,       \* scanner: the text handed to count_keywords
  scan,          \* scanner: the local variables of count_keywords
  fs,            \* walker: the file system below the given path
  root,          \* walker: the path given to analyze_path
  pc,            \* the point reached: "start", "walk", "finish", "returned",
                 \* "panicked"; in a front end before that "args", "language",
                 \* "format", "git_url", "github", "gitlab", "analyze", and
                 \* "done" at the end
  stack,         \* walker: the active calls of analyze_directory, outermost first
  total_counts,  \* walker: the map analyze_path hands to analyze_directory
  file_count,    \* walker: the counter analyze_path hands to analyze_directory
  result,        \* the AnalysisResult of analyze_path, or the one add_file builds
  outcome,       \* walker: "none" until analyze_path returns, then "Ok" or "Err"
  reads,         \* history: the paths given to read_to_string, in order
  listed,        \* history: the paths given to read_dir, in order
  ioFailed,      \* history: an I/O call has returned Err
  added,         \* history: the arguments of the add_file calls, in order
  request,       \* front end: the command line or the JSON body received
  format,        \* front end: the OutputFormat selected, "none" before that
  status,        \* front end: the HTTP status of the response, 0 before it
  process_id,    \* server: std::process::id() of the server process, 0 elsewhere
  tmp,           \* server: what each candidate clone directory under /tmp holds
  handler        \* server: the analyze_path call of each request in flight

(***************************************************************************)
(* Reserved-word tables                                                    *)
(***************************************************************************)
RUST_KEYWORDS ==
  {"i8", "i16", "i32", "i64", "i128", "isize", "u8", "u16", "u32", "u64",
   "u128", "usize", "f32", "f64", "bool", "char", "str", "if", "else",
   "match", "break", "continue", "loop", "while", "for", "struct", "enum",
   "trait", "type", "fn", "return", "move", "pub", "mut", "const", "static",
   "mod", "use", "crate", "extern", "super", "self", "Self", "async",
   "await", "as", "in", "let", "ref", "where", "unsafe", "true", "false",
   "abstract", "become", "box", "do", "final", "macro", "override", "priv",
   "try", "typeof", "unsized", "virtual", "yield"}

JAVASCRIPT_KEYWORDS ==
  {"abstract", "any", "as", "asserts", "async", "await", "boolean", "break",
   "case", "catch", "class", "const", "constructor", "continue", "debugger",
   "declare", "default", "delete", "do", "else", "enum", "export",
   "extends", "false", "finally", "for", "from", "function", "get", "if",
   "implements", "import", "in", "infer", "instanceof", "interface", "is",
   "keyof", "let", "namespace", "never", "new", "null", "number", "object",
   "of", "override", "package", "private", "protected", "public",
   "readonly", "require", "return", "set", "static", "string", "super",
   "switch", "symbol", "this", "throw", "true", "try", "type", "typeof",
   "undefined", "unique", "unknown", "var", "void", "while", "with",
   "yield", "bigint", "intrinsic", "global", "module", "satisfies", "out"}

RUBY_KEYWORDS ==
  {"alias", "and", "begin", "break", "case", "class", "def", "defined?",
   "do", "else", "elsif", "end", "ensure", "false", "for", "if", "in",
   "module", "next", "nil", "not", "or", "redo", "rescue", "retry",
   "return", "self", "super", "then", "true", "undef", "unless", "until",
   "when", "while", "yield", "__FILE__", "__LINE__", "__ENCODING__",
   "private", "protected", "public", "proc", "lambda", "raise", "throw",
   "catch", "each", "map", "select", "reject", "find", "collect", "inject",
   "reduce", "gsub", "sub", "match", "attr_reader", "attr_writer",
   "attr_accessor", "include", "extend", "prepend", "initialize", "new",
   "allocate", "freeze", "dup", "clone", "eql?", "equal?", "respond_to?",
   "kind_of?", "instance_of?", "is_a?"}

GOLANG_KEYWORDS ==
  {"break", "case", "chan", "const", "continue", "default", "defer", "else",
   "fallthrough", "for", "func", "go", "goto", "if", "import", "interface",
   "map", "package", "range", "return", "select", "struct", "switch",
   "type", "var", "bool", "byte", "complex64", "complex128", "error",
   "float32", "float64", "int", "int8", "int16", "int32", "int64", "rune",
   "string", "uint", "uint8", "uint16", "uint32", "uint64", "uintptr",
   "false", "true", "iota", "nil", "append", "cap", "close", "complex",
   "copy", "delete", "imag", "len", "make", "new", "panic", "print",
   "println", "real", "recover"}

PYTHON_KEYWORDS ==
  {"False", "None", "True", "and", "as", "assert", "async", "await",
   "break", "class", "continue", "def", "del", "elif", "else", "except",
   "finally", "for", "from", "global", "if", "import", "in", "is", "lambda",
   "nonlocal", "not", "or", "pass", "raise", "return", "try", "while",
   "with", "yield", "abs", "all", "any", "ascii", "bin", "bool",
   "bytearray", "bytes", "callable", "chr", "classmethod", "compile",
   "complex", "delattr", "dict", "dir", "divmod", "enumerate", "eval",
   "exec", "filter", "float", "format", "frozenset", "getattr", "globals",
   "hasattr", "hash", "help", "hex", "id", "input", "int", "isinstance",
   "issubclass", "iter", "len", "list", "locals", "map", "max",
   "memoryview", "min", "next", "object", "oct", "open", "ord", "pow",
   "print", "property", "range", "repr", "reversed", "round", "set",
   "setattr", "slice", "sorted", "staticmethod", "str", "sum", "super",
   "tuple", "type", "vars", "zip", "Exception", "AttributeError", "IOError",
   "ImportError", "IndexError", "KeyError", "NameError", "RuntimeError",
   "SyntaxError", "TypeError", "ValueError", "ZeroDivisionError",
   "NotImplemented", "Ellipsis", "__debug__", "__init__", "__str__",
   "__repr__", "__len__", "__getitem__", "__setitem__", "__delitem__",
   "__contains__", "__call__", "__enter__", "__exit__", "__iter__",
   "__next__"}

DART_KEYWORDS ==
  {"abstract", "as", "assert", "async", "await", "base", "break", "case",
   "catch", "class", "const", "continue", "covariant", "default",
   "deferred", "do", "dynamic", "else", "enum", "export", "extends",
   "extension", "external", "factory", "false", "final", "finally", "for",
   "Function", "get", "hide", "if", "implements", "import", "in",
   "interface", "is", "late", "library", "mixin", "new", "null", "of", "on",
   "operator", "part", "required", "rethrow", "return", "sealed", "set",
   "show", "static", "super", "switch", "sync", "this", "throw", "true",
   "try", "type", "typedef", "var", "void", "when", "with", "while",
   "yield", "int", "double", "num", "bool", "String", "List", "Map", "Set",
   "Object", "Null"}


(***************************************************************************)
(* Characters                                                              *)
(***************************************************************************)
Languages == {"Rust", "JavaScript", "Ruby", "Golang", "Python", "Dart"}

NUL == "NUL"   \* the '\0' placeholder of string_char / triple_quote_type
EOF == "EOF"   \* chars.peek() == None

\* the character U+0060 (grave accent), written as a name because the TLA+
\* lexer gives that character a meaning of its own
Backtick == "BQ"

Letters ==
  {"a", "b", "c", "d", "e", "f", "g", "h", "i", "j", "k", "l", "m", "n", "o",
   "p", "q", "r", "s", "t", "u", "v", "w", "x", "y", "z",
   "A", "B", "C", "D", "E", "F", "G", "H", "I", "J", "K", "L", "M", "N", "O",
   "P", "Q", "R", "S", "T", "U", "V", "W", "X", "Y", "Z"}

Digits == {"0", "1", "2", "3", "4", "5", "6", "7", "8", "9"}

\* char::is_alphanumeric on the ASCII range
IsAlphanumeric(c) == c \in Letters \cup Digits

\* chars.peek() after the character at index i has been taken
Peek(text, i) == IF i + 1 <= Len(text) THEN text[i + 1] ELSE EOF

\* chars.peek() after the characters at i and i + 1 have been taken
Peek2(text, i) == IF i + 2 <= Len(text) THEN text[i + 2] ELSE EOF

(***************************************************************************)
(* check_and_count_token: *counts.entry(token).or_insert(0) += 1 when the  *)
(* token is in the language's table                                        *)
(***************************************************************************)
Keywords(l) ==
  CASE l = "Rust" -> RUST_KEYWORDS
    [] l = "JavaScript" -> JAVASCRIPT_KEYWORDS
    [] l = "Ruby" -> RUBY_KEYWORDS
    [] l = "Golang" -> GOLANG_KEYWORDS
    [] l = "Python" -> PYTHON_KEYWORDS
    [] l = "Dart" -> DART_KEYWORDS

EmptyMap == <<>>

AddCount(m, k, n) ==
  IF k \in DOMAIN m THEN [m EXCEPT ![k] = @ + n] ELSE m @@ (k :> n)

\* mutant: every token is counted, reserved or not
check_and_count_tokenAnyToken(l, token, counts) == AddCount(counts, token, 1)

check_and_count_token(l, token, counts) ==
  IF token \in Keywords(l) THEN AddCount(counts, token, 1) ELSE counts

\* if !current_token.is_empty() { check_and_count_token(..); current_token.clear(); }
FlushToken(l, s) ==
  IF s.current_token # ""
    THEN [s EXCEPT !.counts = check_and_count_token(l, s.current_token, s.counts),
                   !.current_token = ""]
    ELSE s

\* the locals of count_keywords before the first character is read
ScanStart ==
  [pos |-> 1, current_token |-> "", in_string |-> FALSE,
   in_single_comment |-> FALSE, in_multi_comment |-> FALSE, string_char |-> NUL,
   in_triple_quote |-> FALSE, triple_quote_type |-> NUL,
   counts |-> EmptyMap, returned |-> FALSE]

\* n calls of chars.next(): the iterator stops at the end of the text
Advance(text, s, n) ==
  [s EXCEPT !.pos = IF @ + n > Len(text) + 1 THEN Len(text) + 1 ELSE @ + n]

(***************************************************************************)
(* The identifier-character test of the "regular tokens" arm               *)
(***************************************************************************)
\* mutant: "_" is not taken as an identifier character
IsTokenCharNoUnderscore(l, c) ==
  CASE l = "JavaScript" -> IsAlphanumeric(c) \/ c = "$"
    [] l = "Ruby" -> IsAlphanumeric(c) \/ c = "?"
    [] OTHER -> IsAlphanumeric(c)

IsTokenChar(l, c) ==
  CASE l = "JavaScript" -> IsAlphanumeric(c) \/ c = "_" \/ c = "$"
    [] l = "Ruby" -> IsAlphanumeric(c) \/ c = "_" \/ c = "?"
    [] OTHER -> IsAlphanumeric(c) \/ c = "_"

\* the _ => arm: push an identifier character, flush on any other
RegularToken(l, text, s, c) ==
  IF IsTokenChar(l, c)
    THEN [Advance(text, s, 1) EXCEPT !.current_token = @ \o c]
    ELSE FlushToken(l, Advance(text, s, 1))

\* mutant: the arm forgets the string flag
RustSkipContentNoString(s) == s.in_single_comment \/ s.in_multi_comment

\* the _ if in_string || in_single_comment || in_multi_comment arm
RustSkipContent(s) == s.in_string \/ s.in_single_comment \/ s.in_multi_comment
JsSkipContent(s) == s.in_string \/ s.in_single_comment \/ s.in_multi_comment
RubySkipContent(s) == s.in_string \/ s.in_single_comment

\* mutant: the arm forgets the block-comment flag
GoSkipContentNoMultiComment(s) == s.in_string \/ s.in_single_comment

GoSkipContent(s) == s.in_string \/ s.in_single_comment \/ s.in_multi_comment

\* mutant: the arm forgets the triple-quote flag
PythonSkipContentNoTripleQuote(s) == s.in_string \/ s.in_single_comment

PythonSkipContent(s) == s.in_string \/ s.in_triple_quote \/ s.in_single_comment

DartSkipContent(s) == s.in_string \/ s.in_single_comment \/ s.in_multi_comment

\* mutant: the token held when a string opens is kept
ToggleStringNoFlush(l, text, s, c) ==
  IF ~s.in_string
    THEN [Advance(text, s, 1) EXCEPT !.in_string = TRUE, !.string_char = c]
    ELSE IF c = s.string_char
      THEN [Advance(text, s, 1) EXCEPT !.in_string = FALSE, !.string_char = NUL]
      ELSE Advance(text, s, 1)

\* the string arm shared by Rust, JavaScript, Ruby, Go and Dart
ToggleString(l, text, s, c) ==
  IF ~s.in_string
    THEN FlushToken(l, [Advance(text, s, 1) EXCEPT !.in_string = TRUE,
                                                   !.string_char = c])
    ELSE IF c = s.string_char
      THEN [Advance(text, s, 1) EXCEPT !.in_string = FALSE, !.string_char = NUL]
      ELSE Advance(text, s, 1)

(***************************************************************************)
(* One iteration of while let Some(c) = chars.next() per language.       *)
(* Ruby and Python name the line-comment flag in_comment, Dart names the   *)
(* flags in_comment and in_multi_line_comment; the record keeps one name   *)
(* for each.                                                               *)
(***************************************************************************)
RustStep(text, s) ==
  LET c == text[s.pos]
      p == Peek(text, s.pos)
  IN  IF c = "/" /\ ~s.in_string /\ ~s.in_multi_comment THEN
        IF p = "/" THEN
          FlushToken("Rust", [Advance(text, s, 2) EXCEPT !.in_single_comment = TRUE])
        ELSE IF p = "*" THEN
          FlushToken("Rust", [Advance(text, s, 2) EXCEPT !.in_multi_comment = TRUE])
        ELSE Advance(text, s, 1)
      ELSE IF c = "*" /\ s.in_multi_comment THEN
        IF p = "/" THEN [Advance(text, s, 2) EXCEPT !.in_multi_comment = FALSE]
        ELSE Advance(text, s, 1)
      ELSE IF c = "\n" /\ s.in_single_comment THEN
        [Advance(text, s, 1) EXCEPT !.in_single_comment = FALSE]
      ELSE IF c \in {"\"", "'"} /\ ~s.in_single_comment /\ ~s.in_multi_comment THEN
        ToggleString("Rust", text, s, c)
      ELSE IF c = "\\" /\ s.in_string THEN Advance(text, s, 2)
      ELSE IF RustSkipContent(s) THEN Advance(text, s, 1)
      ELSE RegularToken("Rust", text, s, c)

JsStep(text, s) ==
  LET c == text[s.pos]
      p == Peek(text, s.pos)
  IN  IF c = "/" /\ ~s.in_string /\ ~s.in_multi_comment THEN
        IF p = "/" THEN
          FlushToken("JavaScript",
                     [Advance(text, s, 2) EXCEPT !.in_single_comment = TRUE])
        ELSE IF p = "*" THEN
          FlushToken("JavaScript",
                     [Advance(text, s, 2) EXCEPT !.in_multi_comment = TRUE])
        ELSE Advance(text, s, 1)
      ELSE IF c = "*" /\ s.in_multi_comment THEN
        IF p = "/" THEN [Advance(text, s, 2) EXCEPT !.in_multi_comment = FALSE]
        ELSE Advance(text, s, 1)
      ELSE IF c = "\n" /\ s.in_single_comment THEN
        [Advance(text, s, 1) EXCEPT !.in_single_comment = FALSE]
      ELSE IF c \in {"\"", "'", Backtick} /\ ~s.in_single_comment /\ ~s.in_multi_comment THEN
        ToggleString("JavaScript", text, s, c)
      ELSE IF JsSkipContent(s) THEN Advance(text, s, 1)
      ELSE RegularToken("JavaScript", text, s, c)

RubyStep(text, s) ==
  LET c == text[s.pos]
  IN  IF c = "#" /\ ~s.in_string THEN
        FlushToken("Ruby", [Advance(text, s, 1) EXCEPT !.in_single_comment = TRUE])
      ELSE IF c = "\n" /\ s.in_single_comment THEN
        [Advance(text, s, 1) EXCEPT !.in_single_comment = FALSE]
      ELSE IF c \in {"\"", "'"} /\ ~s.in_single_comment THEN
        ToggleString("Ruby", text, s, c)
      ELSE IF c = "\\" /\ s.in_string THEN Advance(text, s, 2)
      ELSE IF RubySkipContent(s) THEN Advance(text, s, 1)
      ELSE RegularToken("Ruby", text, s, c)

\* mutant: the escape arm is taken in a raw string as well
GoEscapeArmInRawString(s, c) == c = "\\" /\ s.in_string

\* the guard of the escape arm: '\\' if in_string && string_char != U+0060
GoEscapeArm(s, c) == c = "\\" /\ s.in_string /\ s.string_char # Backtick

GoStep(text, s) ==
  LET c == text[s.pos]
      p == Peek(text, s.pos)
  IN  IF c = "/" /\ ~s.in_string /\ ~s.in_multi_comment THEN
        IF p = "/" THEN
          FlushToken("Golang", [Advance(text, s, 2) EXCEPT !.in_single_comment = TRUE])
        ELSE IF p = "*" THEN
          FlushToken("Golang", [Advance(text, s, 2) EXCEPT !.in_multi_comment = TRUE])
        ELSE Advance(text, s, 1)
      ELSE IF c = "*" /\ s.in_multi_comment THEN
        IF p = "/" THEN [Advance(text, s, 2) EXCEPT !.in_multi_comment = FALSE]
        ELSE Advance(text, s, 1)
      ELSE IF c = "\n" /\ s.in_single_comment THEN
        [Advance(text, s, 1) EXCEPT !.in_single_comment = FALSE]
      ELSE IF c \in {"\"", "'", Backtick} /\ ~s.in_single_comment /\ ~s.in_multi_comment THEN
        ToggleString("Golang", text, s, c)
      ELSE IF GoEscapeArm(s, c) THEN Advance(text, s, 2)
      ELSE IF GoSkipContent(s) THEN Advance(text, s, 1)
      ELSE RegularToken("Golang", text, s, c)

PythonStep(text, s) ==
  LET c == text[s.pos]
      p == Peek(text, s.pos)
      q == Peek2(text, s.pos)
  IN  IF c = "#" /\ ~s.in_string /\ ~s.in_triple_quote THEN
        FlushToken("Python", [Advance(text, s, 1) EXCEPT !.in_single_comment = TRUE])
      ELSE IF c = "\n" /\ s.in_single_comment THEN
        [Advance(text, s, 1) EXCEPT !.in_single_comment = FALSE]
      ELSE IF c \in {"\"", "'"} /\ ~s.in_single_comment THEN
        IF ~s.in_string /\ ~s.in_triple_quote THEN
          IF p = c THEN
            IF q = c THEN
              FlushToken("Python", [Advance(text, s, 3) EXCEPT
                                      !.in_triple_quote = TRUE,
                                      !.triple_quote_type = c])
            ELSE
              FlushToken("Python", [Advance(text, s, 2) EXCEPT
                                      !.in_string = TRUE, !.string_char = c])
          ELSE
            FlushToken("Python", [Advance(text, s, 1) EXCEPT
                                    !.in_string = TRUE, !.string_char = c])
        ELSE IF s.in_triple_quote /\ c = s.triple_quote_type THEN
          IF p = c THEN
            IF q = c THEN
              [Advance(text, s, 3) EXCEPT !.in_triple_quote = FALSE,
                                          !.triple_quote_type = NUL]
            ELSE Advance(text, s, 2)
          ELSE Advance(text, s, 1)
        ELSE IF s.in_string /\ c = s.string_char THEN
          [Advance(text, s, 1) EXCEPT !.in_string = FALSE, !.string_char = NUL]
        ELSE Advance(text, s, 1)
      ELSE IF c = "\\" /\ s.in_string /\ ~s.in_triple_quote THEN Advance(text, s, 2)
      ELSE IF PythonSkipContent(s) THEN Advance(text, s, 1)
      ELSE RegularToken("Python", text, s, c)

DartStep(text, s) ==
  LET c == text[s.pos]
      p == Peek(text, s.pos)
  IN  IF c = "/" /\ ~s.in_string /\ ~s.in_single_comment /\ ~s.in_multi_comment THEN
        IF p = "*" THEN
          FlushToken("Dart", [Advance(text, s, 2) EXCEPT !.in_multi_comment = TRUE])
        ELSE IF p = "/" THEN
          FlushToken("Dart", [Advance(text, s, 2) EXCEPT !.in_single_comment = TRUE])
        ELSE Advance(text, s, 1)
      ELSE IF c = "*" /\ s.in_multi_comment /\ ~s.in_string THEN
        IF p = "/" THEN [Advance(text, s, 2) EXCEPT !.in_multi_comment = FALSE]
        ELSE Advance(text, s, 1)
      ELSE IF c = "\n" /\ s.in_single_comment THEN
        [Advance(text, s, 1) EXCEPT !.in_single_comment = FALSE]
      ELSE IF c \in {"\"", "'"} /\ ~s.in_single_comment /\ ~s.in_multi_comment THEN
        ToggleString("Dart", text, s, c)
      ELSE IF c = "\\" /\ s.in_string THEN Advance(text, s, 2)
      ELSE IF DartSkipContent(s) THEN Advance(text, s, 1)
      ELSE RegularToken("Dart", text, s, c)

ScanStep(l, text, s) ==
  CASE l = "Rust" -> RustStep(text, s)
    [] l = "JavaScript" -> JsStep(text, s)
    [] l = "Ruby" -> RubyStep(text, s)
    [] l = "Golang" -> GoStep(text, s)
    [] l = "Python" -> PythonStep(text, s)
    [] l = "Dart" -> DartStep(text, s)

\* mutant: the token still held at the end of the text is dropped
ScanFinishNoFlush(l, s) == [s EXCEPT !.returned = TRUE]

\* "Check final token" and counts returned
ScanFinish(l, s) == [FlushToken(l, s) EXCEPT !.returned = TRUE]

RECURSIVE ScanFrom(_, _, _)
ScanFrom(l, text, s) ==
  IF s.pos > Len(text) THEN ScanFinish(l, s) ELSE ScanFrom(l, text, ScanStep(l, text, s))

\* count_keywords(content)
count_keywords(l, text) == ScanFrom(l, text, ScanStart).counts

(***************************************************************************)
(* File Classifier                                                         *)
(***************************************************************************)
RustSkipNames ==
  {<<"t", "a", "r", "g", "e", "t">>, <<".", "g", "i", "t">>,
   <<"n", "o", "d", "e", "_", "m", "o", "d", "u", "l", "e", "s">>}

JavaScriptSkipNames ==
  {<<"t", "a", "r", "g", "e", "t">>, <<".", "g", "i", "t">>,
   <<"n", "o", "d", "e", "_", "m", "o", "d", "u", "l", "e", "s">>,
   <<"d", "i", "s", "t">>, <<"b", "u", "i", "l", "d">>}

RubySkipNames ==
  {<<"t", "a", "r", "g", "e", "t">>, <<".", "g", "i", "t">>,
   <<"n", "o", "d", "e", "_", "m", "o", "d", "u", "l", "e", "s">>,
   <<"v", "e", "n", "d", "o", "r">>, <<"t", "m", "p">>, <<"l", "o", "g">>,
   <<".", "b", "u", "n", "d", "l", "e">>}

GoSkipNames ==
  {<<"v", "e", "n", "d", "o", "r">>,
   <<"n", "o", "d", "e", "_", "m", "o", "d", "u", "l", "e", "s">>,
   <<".", "g", "i", "t">>, <<"t", "a", "r", "g", "e", "t">>, <<"b", "i", "n">>,
   <<"p", "k", "g">>, <<".", "v", "s", "c", "o", "d", "e">>,
   <<".", "i", "d", "e", "a">>}

PythonSkipNames ==
  {<<"_", "_", "p", "y", "c", "a", "c", "h", "e", "_", "_">>,
   <<".", "p", "y", "t", "e", "s", "t", "_", "c", "a", "c", "h", "e">>,
   <<"v", "e", "n", "v">>, <<"e", "n", "v">>, <<".", "v", "e", "n", "v">>,
   <<".", "e", "n", "v">>,
   <<"s", "i", "t", "e", "-", "p", "a", "c", "k", "a", "g", "e", "s">>,
   <<"d", "i", "s", "t">>, <<"b", "u", "i", "l", "d">>, <<".", "g", "i", "t">>,
   <<"t", "a", "r", "g", "e", "t">>,
   <<"n", "o", "d", "e", "_", "m", "o", "d", "u", "l", "e", "s">>,
   <<".", "t", "o", "x">>, <<".", "c", "o", "v", "e", "r", "a", "g", "e">>,
   <<"h", "t", "m", "l", "c", "o", "v">>,
   <<".", "m", "y", "p", "y", "_", "c", "a", "c", "h", "e">>,
   <<".", "i", "d", "e", "a">>, <<".", "v", "s", "c", "o", "d", "e">>}

DartSkipNames ==
  {<<".", "d", "a", "r", "t", "_", "t", "o", "o", "l">>, <<"b", "u", "i", "l", "d">>,
   <<".", "p", "u", "b">>, <<".", "g", "i", "t">>, <<"t", "a", "r", "g", "e", "t">>,
   <<"n", "o", "d", "e", "_", "m", "o", "d", "u", "l", "e", "s">>,
   <<".", "i", "d", "e", "a">>, <<".", "v", "s", "c", "o", "d", "e">>}

RustExtensions ==
  {<<"r", "s">>}

JavaScriptExtensions ==
  {<<"t", "s">>, <<"t", "s", "x">>, <<"j", "s">>, <<"j", "s", "x">>}

RubyExtensions ==
  {<<"r", "b">>, <<"r", "a", "k", "e">>, <<"g", "e", "m", "s", "p", "e", "c">>}

GoExtensions ==
  {<<"g", "o">>}

PythonExtensions ==
  {<<"p", "y">>, <<"p", "y", "w">>, <<"p", "y", "i">>}

DartExtensions ==
  {<<"d", "a", "r", "t">>}

RubyFileNames ==
  {<<"R", "a", "k", "e", "f", "i", "l", "e">>, <<"G", "e", "m", "f", "i", "l", "e">>,
   <<"G", "u", "a", "r", "d", "f", "i", "l", "e">>,
   <<"C", "a", "p", "f", "i", "l", "e">>,
   <<"V", "a", "g", "r", "a", "n", "t", "f", "i", "l", "e">>}

PythonFileNames ==
  {<<"P", "i", "p", "f", "i", "l", "e">>,
   <<"P", "i", "p", "f", "i", "l", "e", ".", "l", "o", "c", "k">>,
   <<"_", "_", "i", "n", "i", "t", "_", "_">>}

ToLowercase ==
  [c \in Letters |->
   CASE c = "A" -> "a"
     [] c = "B" -> "b"
     [] c = "C" -> "c"
     [] c = "D" -> "d"
     [] c = "E" -> "e"
     [] c = "F" -> "f"
     [] c = "G" -> "g"
     [] c = "H" -> "h"
     [] c = "I" -> "i"
     [] c = "J" -> "j"
     [] c = "K" -> "k"
     [] c = "L" -> "l"
     [] c = "M" -> "m"
     [] c = "N" -> "n"
     [] c = "O" -> "o"
     [] c = "P" -> "p"
     [] c = "Q" -> "q"
     [] c = "R" -> "r"
     [] c = "S" -> "s"
     [] c = "T" -> "t"
     [] c = "U" -> "u"
     [] c = "V" -> "v"
     [] c = "W" -> "w"
     [] c = "X" -> "x"
     [] c = "Y" -> "y"
     [] c = "Z" -> "z"
     [] OTHER -> c]

\* a byte sequence that is not valid UTF-8 (OsStr::to_str gives None on it)
BadByte == "0xFF"

\* OsStr::to_str(name).is_some()
IsUtf8(name) == \A i \in 1..Len(name) : name[i] # BadByte

\* index of the final "." of a file name, 0 when there is none
LastDot(name) ==
  LET dots == {i \in 1..Len(name) : name[i] = "."}
  IN  IF dots = {} THEN 0 ELSE CHOOSE i \in dots : \A j \in dots : j <= i

\* Path::extension is Some: a "." that is not the first character of the name
HasExtension(name) == LastDot(name) > 1

\* Path::extension: the portion of the file name after the final "."
Extension(name) == SubSeq(name, LastDot(name) + 1, Len(name))

\* str::to_lowercase
Lowercase(str) == [i \in 1..Len(str) |-> IF str[i] \in Letters THEN ToLowercase[str[i]] ELSE str[i]]

is_rust_file(name) == HasExtension(name) /\ Extension(name) \in RustExtensions

is_javascript_file(name) ==
  /\ HasExtension(name)
  /\ IsUtf8(Extension(name))
  /\ Extension(name) \in JavaScriptExtensions

is_ruby_file(name) ==
  IF HasExtension(name) /\ IsUtf8(Extension(name))
    THEN Extension(name) \in RubyExtensions
    ELSE IsUtf8(name) /\ name \in RubyFileNames

is_go_file(name) == HasExtension(name) /\ Extension(name) \in GoExtensions

is_python_file(name) ==
  IF HasExtension(name)
    THEN Lowercase(Extension(name)) \in PythonExtensions
    ELSE name \in PythonFileNames

is_dart_file(name) == HasExtension(name) /\ Lowercase(Extension(name)) \in DartExtensions

\* the extensions the language's source-file predicate names
Extensions(l) ==
  CASE l = "Rust" -> RustExtensions
    [] l = "JavaScript" -> JavaScriptExtensions
    [] l = "Ruby" -> RubyExtensions
    [] l = "Golang" -> GoExtensions
    [] l = "Python" -> PythonExtensions
    [] l = "Dart" -> DartExtensions

\* the source-file predicate of the selected language, on a file name
IsSourceFile(l, name) ==
  CASE l = "Rust" -> is_rust_file(name)
    [] l = "JavaScript" -> is_javascript_file(name)
    [] l = "Ruby" -> is_ruby_file(name)
    [] l = "Golang" -> is_go_file(name)
    [] l = "Python" -> is_python_file(name)
    [] l = "Dart" -> is_dart_file(name)

SkipNames(l) ==
  CASE l = "Rust" -> RustSkipNames
    [] l = "JavaScript" -> JavaScriptSkipNames
    [] l = "Ruby" -> RubySkipNames
    [] l = "Golang" -> GoSkipNames
    [] l = "Python" -> PythonSkipNames
    [] l = "Dart" -> DartSkipNames

\* should_skip_dir: the basename is in the language's list
should_skip_dir(l, name) == IsUtf8(name) /\ name \in SkipNames(l)

(***************************************************************************)
(* File system: a set of nodes [path, kind, text].  A path is the tuple of *)
(* its components, a component is a tuple of characters; the first         *)
(* component is the path given to analyze_path.  There are no symbolic     *)
(* links: a node is a directory or a regular file.                         *)
(***************************************************************************)
Basename(p) == p[Len(p)]

IsDir(tree, p) == \E n \in tree : n.path = p /\ n.kind = "dir"      \* Path::is_dir

IsFile(tree, p) == \E n \in tree : n.path = p /\ n.kind = "file"    \* Path::is_file

TextOf(tree, p) == (CHOOSE n \in tree : n.path = p).text

\* the entries fs::read_dir(p) yields
Entries(tree, p) ==
  {n.path : n \in {m \in tree : Len(m.path) = Len(p) + 1 /\ SubSeq(m.path, 1, Len(p)) = p}}

(***************************************************************************)
(* Merging and summing count maps                                          *)
(***************************************************************************)
GetCount(m, k) == IF k \in DOMAIN m THEN m[k] ELSE 0

\* mutant: the count of the file replaces the running count
MergeCountsOverwrite(total, file_counts) ==
  [k \in (DOMAIN total) \cup (DOMAIN file_counts) |->
     IF k \in DOMAIN file_counts THEN file_counts[k] ELSE total[k]]

\* for (keyword, count) in file_counts { *total_counts.entry(keyword).or_insert(0) += count; }
MergeCounts(total, file_counts) ==
  [k \in (DOMAIN total) \cup (DOMAIN file_counts) |->
     GetCount(total, k) + GetCount(file_counts, k)]

RECURSIVE SumOver(_, _)
SumOver(m, keys) ==
  IF keys = {} THEN 0
  ELSE LET k == CHOOSE x \in keys : TRUE IN m[k] + SumOver(m, keys \ {k})

\* mutant: the keys are counted, not the values summed
SumValuesCountsKeys(m) == Cardinality(DOMAIN m)

\* keyword_counts.values().sum()
SumValues(m) == SumOver(m, DOMAIN m)

\* AnalysisResult::new(language)
NewAnalysisResult(l) ==
  [language |-> l, file_count |-> 0, total_keywords |-> 0,
   keyword_counts |-> EmptyMap, files_analyzed |-> <<>>]

\* AnalysisResult::add_file(&mut self, file_path, counts)
add_file(self, file_path, counts) ==
  [self EXCEPT !.file_count = @ + 1,
               !.files_analyzed = Append(@, file_path),
               !.keyword_counts = MergeCounts(@, counts),
               !.total_keywords = @ + SumValues(counts)]

(***************************************************************************)
(* The walk of analyze_directory.  Rust, JavaScript, Ruby and Go test      *)
(* is_dir() && !should_skip_dir() and fall to the source-file test       *)
(* otherwise; Python and Dart test is_dir() first and continue on a      *)
(* skipped directory.                                                      *)
(***************************************************************************)
TestsDirFirst(l) == l \in {"Python", "Dart"}

\* mutant: the skip list is not consulted
DescendsIgnoringSkipList(l, tree, e) == IsDir(tree, e)

\* the entry is recursed into
Descends(l, tree, e) == IsDir(tree, e) /\ ~should_skip_dir(l, Basename(e))

\* the entry is handed to analyze_file / read_to_string
Scans(l, tree, e) ==
  IF TestsDirFirst(l)
    THEN ~IsDir(tree, e) /\ IsSourceFile(l, Basename(e))
    ELSE ~Descends(l, tree, e) /\ IsSourceFile(l, Basename(e))

\* entry_path.to_str().unwrap() succeeds
PathIsUtf8(p) == \A i \in 1..Len(p) : IsUtf8(p[i])

(***************************************************************************)
(* Front ends: the language and format names of the command line           *)
(* (parse_args) and of the HTTP API (parse_language, analyze_repository).  *)
(* A name is a tuple of characters; the empty tuple is an option that was  *)
(* not given.                                                              *)
(***************************************************************************)
\* parse_args: the value of --language / -l, Language::Rust when none is given
\* or the value is not one of the names
ParseArgsLanguage(arg) ==
  CASE arg \in {<<"j", "s">>, <<"t", "s">>, <<"j", "a", "v", "a", "s", "c", "r", "i", "p", "t">>, <<"t", "y", "p", "e", "s", "c", "r", "i", "p", "t">>} -> "JavaScript"
    [] arg \in {<<"r", "u", "s", "t">>, <<"r", "s">>} -> "Rust"
    [] arg \in {<<"r", "u", "b", "y">>, <<"r", "b">>} -> "Ruby"
    [] arg \in {<<"g", "o">>, <<"g", "o", "l", "a", "n", "g">>} -> "Golang"
    [] arg \in {<<"p", "y", "t", "h", "o", "n">>, <<"p", "y">>} -> "Python"
    [] OTHER -> "Rust"

\* parse_args: the value of --format / -f, OutputFormat::Plain by default
ParseArgsFormat(arg) ==
  CASE arg = <<"j", "s", "o", "n">> -> "Json"
    [] arg = <<"c", "s", "v">> -> "Csv"
    [] arg = <<"h", "t", "m", "l">> -> "Html"
    [] arg = <<"g", "r", "a", "p", "h">> -> "Graph"
    [] OTHER -> "Plain"

\* what parse_language and the format match answer to a name they do not know
BAD_REQUEST == "BAD_REQUEST"

\* parse_language: match lang_str.to_lowercase().as_str()
parse_language(lang_str) ==
  LET name == Lowercase(lang_str)
  IN  CASE name \in {<<"r", "u", "s", "t">>, <<"r", "s">>} -> "Rust"
        [] name \in {<<"j", "a", "v", "a", "s", "c", "r", "i", "p", "t">>, <<"j", "s">>, <<"t", "y", "p", "e", "s", "c", "r", "i", "p", "t">>, <<"t", "s">>} -> "JavaScript"
        [] name \in {<<"r", "u", "b", "y">>, <<"r", "b">>} -> "Ruby"
        [] name \in {<<"g", "o">>, <<"g", "o", "l", "a", "n", "g">>} -> "Golang"
        [] name \in {<<"p", "y", "t", "h", "o", "n">>, <<"p", "y">>} -> "Python"
        [] OTHER -> BAD_REQUEST

\* mutant: a format that is not known falls back to JSON
ParseApiFormatDefaultsToJson(arg) ==
  IF arg # <<>> /\ Lowercase(arg) = <<"h", "t", "m", "l">> THEN "Html" ELSE "Json"

\* analyze_repository: the format, lower-cased, "json" when none is given
ParseApiFormat(arg) ==
  LET name == IF arg = <<>> THEN <<"j", "s", "o", "n">> ELSE Lowercase(arg)
  IN  CASE name = <<"j", "s", "o", "n">> -> "Json"
        [] name = <<"h", "t", "m", "l">> -> "Html"
        [] OTHER -> BAD_REQUEST

(***************************************************************************)
(* Repository URLs.  A path or URL is the tuple of the pieces its text     *)
(* falls into at each "/": https://github.com/owner/repo is                *)
(* <<"https:", "", "github.com", "owner", "repo">>.  A prefix that ends    *)
(* in "/" ends in the empty piece.                                         *)
(***************************************************************************)
HttpsGitHub == <<"https:", "", "github.com", "">>
HttpGitHub == <<"http:", "", "github.com", "">>
BareGitHub == <<"github.com", "">>
HttpsGitLab == <<"https:", "", "gitlab.com", "">>
HttpGitLab == <<"http:", "", "gitlab.com", "">>
BareGitLab == <<"gitlab.com", "">>

\* str::starts_with for a prefix that ends in "/"
StartsWith(input, prefix) ==
  /\ Len(input) >= Len(prefix)
  /\ \A i \in 1..(Len(prefix) - 1) : input[i] = prefix[i]

\* str::strip_prefix, then split('/')
PartsAfter(url, prefix) == SubSeq(url, Len(prefix), Len(url))

\* str::contains for a host name: the pieces of the URLs handed in either are
\* the host name or hold no part of it
Contains(url, host) == \E i \in 1..Len(url) : url[i] = host

is_git_url(input) ==
  \/ StartsWith(input, HttpsGitHub)
  \/ StartsWith(input, HttpGitHub)
  \/ StartsWith(input, BareGitHub)
  \/ StartsWith(input, HttpsGitLab)
  \/ StartsWith(input, HttpGitLab)
  \/ StartsWith(input, BareGitLab)

\* parts.len() >= 2 && !parts[0].is_empty() && !parts[1].is_empty()
OwnerAndRepository(parts) == Len(parts) >= 2 /\ parts[1] # "" /\ parts[2] # ""

is_valid_github_repo_url(url) ==
  IF StartsWith(url, HttpsGitHub) THEN OwnerAndRepository(PartsAfter(url, HttpsGitHub))
  ELSE IF StartsWith(url, HttpGitHub) THEN OwnerAndRepository(PartsAfter(url, HttpGitHub))
  ELSE IF StartsWith(url, BareGitHub) THEN OwnerAndRepository(PartsAfter(url, BareGitHub))
  ELSE FALSE

is_valid_gitlab_repo_url(url) ==
  IF StartsWith(url, HttpsGitLab) THEN OwnerAndRepository(PartsAfter(url, HttpsGitLab))
  ELSE IF StartsWith(url, HttpGitLab) THEN OwnerAndRepository(PartsAfter(url, HttpGitLab))
  ELSE IF StartsWith(url, BareGitLab) THEN OwnerAndRepository(PartsAfter(url, BareGitLab))
  ELSE FALSE

\* if is_git_url(path) { let _ = fs::remove_dir_all(&actual_path); }
AfterCleanup(path, tree) == IF is_git_url(path) THEN {} ELSE tree

(***************************************************************************)
(* Scanner inputs: every text made of at most MaxPieces pieces, a piece    *)
(* being the reserved word if (reserved in all six tables) or one of the *)
(* characters the language's scanner tells apart.                          *)
(***************************************************************************)
MaxPieces == 4

Pieces(l) ==
  CASE l = "Rust" ->
         {<<"i", "f">>, <<"_">>, <<"/">>, <<"*">>, <<"\n">>, <<"\"">>, <<"'">>, <<"\\">>}
    [] l = "JavaScript" ->
         {<<"i", "f">>, <<"_">>, <<"$">>, <<"/">>, <<"*">>, <<"\n">>, <<"\"">>, <<"'">>,
          <<Backtick>>, <<"\\">>}
    [] l = "Ruby" ->
         {<<"i", "f">>, <<"_">>, <<"?">>, <<"#">>, <<"\n">>, <<"\"">>, <<"'">>, <<"\\">>}
    [] l = "Golang" ->
         {<<"i", "f">>, <<"_">>, <<"/">>, <<"*">>, <<"\n">>, <<"\"">>, <<"'">>, <<Backtick>>,
          <<"\\">>}
    [] l = "Python" ->
         {<<"i", "f">>, <<"_">>, <<"#">>, <<"\n">>, <<"\"">>, <<"'">>, <<"\\">>}
    [] l = "Dart" ->
         {<<"i", "f">>, <<"_">>, <<"/">>, <<"*">>, <<"\n">>, <<"\"">>, <<"'">>, <<"\\">>}

RECURSIVE Texts(_, _)
Texts(l, n) ==
  IF n = 0 THEN {<<>>}
  ELSE LET shorter == Texts(l, n - 1)
       IN  shorter \cup {t \o p : t \in shorter, p \in Pieces(l)}


(***************************************************************************)
(* The reserved words again, spelled out character by character, to be     *)
(* handed to the scanners as texts                                         *)
(***************************************************************************)
RustKeywordTexts ==
  {<<"i", "8">>, <<"i", "1", "6">>, <<"i", "3", "2">>, <<"i", "6", "4">>,
   <<"i", "1", "2", "8">>, <<"i", "s", "i", "z", "e">>, <<"u", "8">>,
   <<"u", "1", "6">>, <<"u", "3", "2">>, <<"u", "6", "4">>, <<"u", "1", "2", "8">>,
   <<"u", "s", "i", "z", "e">>, <<"f", "3", "2">>, <<"f", "6", "4">>,
   <<"b", "o", "o", "l">>, <<"c", "h", "a", "r">>, <<"s", "t", "r">>, <<"i", "f">>,
   <<"e", "l", "s", "e">>, <<"m", "a", "t", "c", "h">>, <<"b", "r", "e", "a", "k">>,
   <<"c", "o", "n", "t", "i", "n", "u", "e">>, <<"l", "o", "o", "p">>,
   <<"w", "h", "i", "l", "e">>, <<"f", "o", "r">>, <<"s", "t", "r", "u", "c", "t">>,
   <<"e", "n", "u", "m">>, <<"t", "r", "a", "i", "t">>, <<"t", "y", "p", "e">>,
   <<"f", "n">>, <<"r", "e", "t", "u", "r", "n">>, <<"m", "o", "v", "e">>,
   <<"p", "u", "b">>, <<"m", "u", "t">>, <<"c", "o", "n", "s", "t">>,
   <<"s", "t", "a", "t", "i", "c">>, <<"m", "o", "d">>, <<"u", "s", "e">>,
   <<"c", "r", "a", "t", "e">>, <<"e", "x", "t", "e", "r", "n">>,
   <<"s", "u", "p", "e", "r">>, <<"s", "e", "l", "f">>, <<"S", "e", "l", "f">>,
   <<"a", "s", "y", "n", "c">>, <<"a", "w", "a", "i", "t">>, <<"a", "s">>,
   <<"i", "n">>, <<"l", "e", "t">>, <<"r", "e", "f">>, <<"w", "h", "e", "r", "e">>,
   <<"u", "n", "s", "a", "f", "e">>, <<"t", "r", "u", "e">>,
   <<"f", "a", "l", "s", "e">>, <<"a", "b", "s", "t", "r", "a", "c", "t">>,
   <<"b", "e", "c", "o", "m", "e">>, <<"b", "o", "x">>, <<"d", "o">>,
   <<"f", "i", "n", "a", "l">>, <<"m", "a", "c", "r", "o">>,
   <<"o", "v", "e", "r", "r", "i", "d", "e">>, <<"p", "r", "i", "v">>,
   <<"t", "r", "y">>, <<"t", "y", "p", "e", "o", "f">>,
   <<"u", "n", "s", "i", "z", "e", "d">>, <<"v", "i", "r", "t", "u", "a", "l">>,
   <<"y", "i", "e", "l", "d">>}

JavaScriptKeywordTexts ==
  {<<"a", "b", "s", "t", "r", "a", "c", "t">>, <<"a", "n", "y">>, <<"a", "s">>,
   <<"a", "s", "s", "e", "r", "t", "s">>, <<"a", "s", "y", "n", "c">>,
   <<"a", "w", "a", "i", "t">>, <<"b", "o", "o", "l", "e", "a", "n">>,
   <<"b", "r", "e", "a", "k">>, <<"c", "a", "s", "e">>, <<"c", "a", "t", "c", "h">>,
   <<"c", "l", "a", "s", "s">>, <<"c", "o", "n", "s", "t">>,
   <<"c", "o", "n", "s", "t", "r", "u", "c", "t", "o", "r">>,
   <<"c", "o", "n", "t", "i", "n", "u", "e">>,
   <<"d", "e", "b", "u", "g", "g", "e", "r">>, <<"d", "e", "c", "l", "a", "r", "e">>,
   <<"d", "e", "f", "a", "u", "l", "t">>, <<"d", "e", "l", "e", "t", "e">>,
   <<"d", "o">>, <<"e", "l", "s", "e">>, <<"e", "n", "u", "m">>,
   <<"e", "x", "p", "o", "r", "t">>, <<"e", "x", "t", "e", "n", "d", "s">>,
   <<"f", "a", "l", "s", "e">>, <<"f", "i", "n", "a", "l", "l", "y">>,
   <<"f", "o", "r">>, <<"f", "r", "o", "m">>,
   <<"f", "u", "n", "c", "t", "i", "o", "n">>, <<"g", "e", "t">>, <<"i", "f">>,
   <<"i", "m", "p", "l", "e", "m", "e", "n", "t", "s">>,
   <<"i", "m", "p", "o", "r", "t">>, <<"i", "n">>, <<"i", "n", "f", "e", "r">>,
   <<"i", "n", "s", "t", "a", "n", "c", "e", "o", "f">>,
   <<"i", "n", "t", "e", "r", "f", "a", "c", "e">>, <<"i", "s">>,
   <<"k", "e", "y", "o", "f">>, <<"l", "e", "t">>,
   <<"n", "a", "m", "e", "s", "p", "a", "c", "e">>, <<"n", "e", "v", "e", "r">>,
   <<"n", "e", "w">>, <<"n", "u", "l", "l">>, <<"n", "u", "m", "b", "e", "r">>,
   <<"o", "b", "j", "e", "c", "t">>, <<"o", "f">>,
   <<"o", "v", "e", "r", "r", "i", "d", "e">>, <<"p", "a", "c", "k", "a", "g", "e">>,
   <<"p", "r", "i", "v", "a", "t", "e">>,
   <<"p", "r", "o", "t", "e", "c", "t", "e", "d">>, <<"p", "u", "b", "l", "i", "c">>,
   <<"r", "e", "a", "d", "o", "n", "l", "y">>, <<"r", "e", "q", "u", "i", "r", "e">>,
   <<"r", "e", "t", "u", "r", "n">>, <<"s", "e", "t">>,
   <<"s", "t", "a", "t", "i", "c">>, <<"s", "t", "r", "i", "n", "g">>,
   <<"s", "u", "p", "e", "r">>, <<"s", "w", "i", "t", "c", "h">>,
   <<"s", "y", "m", "b", "o", "l">>, <<"t", "h", "i", "s">>,
   <<"t", "h", "r", "o", "w">>, <<"t", "r", "u", "e">>, <<"t", "r", "y">>,
   <<"t", "y", "p", "e">>, <<"t", "y", "p", "e", "o", "f">>,
   <<"u", "n", "d", "e", "f", "i", "n", "e", "d">>, <<"u", "n", "i", "q", "u", "e">>,
   <<"u", "n", "k", "n", "o", "w", "n">>, <<"v", "a", "r">>, <<"v", "o", "i", "d">>,
   <<"w", "h", "i", "l", "e">>, <<"w", "i", "t", "h">>, <<"y", "i", "e", "l", "d">>,
   <<"b", "i", "g", "i", "n", "t">>, <<"i", "n", "t", "r", "i", "n", "s", "i", "c">>,
   <<"g", "l", "o", "b", "a", "l">>, <<"m", "o", "d", "u", "l", "e">>,
   <<"s", "a", "t", "i", "s", "f", "i", "e", "s">>, <<"o", "u", "t">>}

RubyKeywordTexts ==
  {<<"a", "l", "i", "a", "s">>, <<"a", "n", "d">>, <<"b", "e", "g", "i", "n">>,
   <<"b", "r", "e", "a", "k">>, <<"c", "a", "s", "e">>, <<"c", "l", "a", "s", "s">>,
   <<"d", "e", "f">>, <<"d", "e", "f", "i", "n", "e", "d", "?">>, <<"d", "o">>,
   <<"e", "l", "s", "e">>, <<"e", "l", "s", "i", "f">>, <<"e", "n", "d">>,
   <<"e", "n", "s", "u", "r", "e">>, <<"f", "a", "l", "s", "e">>, <<"f", "o", "r">>,
   <<"i", "f">>, <<"i", "n">>, <<"m", "o", "d", "u", "l", "e">>,
   <<"n", "e", "x", "t">>, <<"n", "i", "l">>, <<"n", "o", "t">>, <<"o", "r">>,
   <<"r", "e", "d", "o">>, <<"r", "e", "s", "c", "u", "e">>,
   <<"r", "e", "t", "r", "y">>, <<"r", "e", "t", "u", "r", "n">>,
   <<"s", "e", "l", "f">>, <<"s", "u", "p", "e", "r">>, <<"t", "h", "e", "n">>,
   <<"t", "r", "u", "e">>, <<"u", "n", "d", "e", "f">>,
   <<"u", "n", "l", "e", "s", "s">>, <<"u", "n", "t", "i", "l">>,
   <<"w", "h", "e", "n">>, <<"w", "h", "i", "l", "e">>, <<"y", "i", "e", "l", "d">>,
   <<"_", "_", "F", "I", "L", "E", "_", "_">>,
   <<"_", "_", "L", "I", "N", "E", "_", "_">>,
   <<"_", "_", "E", "N", "C", "O", "D", "I", "N", "G", "_", "_">>,
   <<"p", "r", "i", "v", "a", "t", "e">>,
   <<"p", "r", "o", "t", "e", "c", "t", "e", "d">>, <<"p", "u", "b", "l", "i", "c">>,
   <<"p", "r", "o", "c">>, <<"l", "a", "m", "b", "d", "a">>,
   <<"r", "a", "i", "s", "e">>, <<"t", "h", "r", "o", "w">>,
   <<"c", "a", "t", "c", "h">>, <<"e", "a", "c", "h">>, <<"m", "a", "p">>,
   <<"s", "e", "l", "e", "c", "t">>, <<"r", "e", "j", "e", "c", "t">>,
   <<"f", "i", "n", "d">>, <<"c", "o", "l", "l", "e", "c", "t">>,
   <<"i", "n", "j", "e", "c", "t">>, <<"r", "e", "d", "u", "c", "e">>,
   <<"g", "s", "u", "b">>, <<"s", "u", "b">>, <<"m", "a", "t", "c", "h">>,
   <<"a", "t", "t", "r", "_", "r", "e", "a", "d", "e", "r">>,
   <<"a", "t", "t", "r", "_", "w", "r", "i", "t", "e", "r">>,
   <<"a", "t", "t", "r", "_", "a", "c", "c", "e", "s", "s", "o", "r">>,
   <<"i", "n", "c", "l", "u", "d", "e">>, <<"e", "x", "t", "e", "n", "d">>,
   <<"p", "r", "e", "p", "e", "n", "d">>,
   <<"i", "n", "i", "t", "i", "a", "l", "i", "z", "e">>, <<"n", "e", "w">>,
   <<"a", "l", "l", "o", "c", "a", "t", "e">>, <<"f", "r", "e", "e", "z", "e">>,
   <<"d", "u", "p">>, <<"c", "l", "o", "n", "e">>, <<"e", "q", "l", "?">>,
   <<"e", "q", "u", "a", "l", "?">>,
   <<"r", "e", "s", "p", "o", "n", "d", "_", "t", "o", "?">>,
   <<"k", "i", "n", "d", "_", "o", "f", "?">>,
   <<"i", "n", "s", "t", "a", "n", "c", "e", "_", "o", "f", "?">>,
   <<"i", "s", "_", "a", "?">>}

GoKeywordTexts ==
  {<<"b", "r", "e", "a", "k">>, <<"c", "a", "s", "e">>, <<"c", "h", "a", "n">>,
   <<"c", "o", "n", "s", "t">>, <<"c", "o", "n", "t", "i", "n", "u", "e">>,
   <<"d", "e", "f", "a", "u", "l", "t">>, <<"d", "e", "f", "e", "r">>,
   <<"e", "l", "s", "e">>, <<"f", "a", "l", "l", "t", "h", "r", "o", "u", "g", "h">>,
   <<"f", "o", "r">>, <<"f", "u", "n", "c">>, <<"g", "o">>, <<"g", "o", "t", "o">>,
   <<"i", "f">>, <<"i", "m", "p", "o", "r", "t">>,
   <<"i", "n", "t", "e", "r", "f", "a", "c", "e">>, <<"m", "a", "p">>,
   <<"p", "a", "c", "k", "a", "g", "e">>, <<"r", "a", "n", "g", "e">>,
   <<"r", "e", "t", "u", "r", "n">>, <<"s", "e", "l", "e", "c", "t">>,
   <<"s", "t", "r", "u", "c", "t">>, <<"s", "w", "i", "t", "c", "h">>,
   <<"t", "y", "p", "e">>, <<"v", "a", "r">>, <<"b", "o", "o", "l">>,
   <<"b", "y", "t", "e">>, <<"c", "o", "m", "p", "l", "e", "x", "6", "4">>,
   <<"c", "o", "m", "p", "l", "e", "x", "1", "2", "8">>, <<"e", "r", "r", "o", "r">>,
   <<"f", "l", "o", "a", "t", "3", "2">>, <<"f", "l", "o", "a", "t", "6", "4">>,
   <<"i", "n", "t">>, <<"i", "n", "t", "8">>, <<"i", "n", "t", "1", "6">>,
   <<"i", "n", "t", "3", "2">>, <<"i", "n", "t", "6", "4">>, <<"r", "u", "n", "e">>,
   <<"s", "t", "r", "i", "n", "g">>, <<"u", "i", "n", "t">>,
   <<"u", "i", "n", "t", "8">>, <<"u", "i", "n", "t", "1", "6">>,
   <<"u", "i", "n", "t", "3", "2">>, <<"u", "i", "n", "t", "6", "4">>,
   <<"u", "i", "n", "t", "p", "t", "r">>, <<"f", "a", "l", "s", "e">>,
   <<"t", "r", "u", "e">>, <<"i", "o", "t", "a">>, <<"n", "i", "l">>,
   <<"a", "p", "p", "e", "n", "d">>, <<"c", "a", "p">>, <<"c", "l", "o", "s", "e">>,
   <<"c", "o", "m", "p", "l", "e", "x">>, <<"c", "o", "p", "y">>,
   <<"d", "e", "l", "e", "t", "e">>, <<"i", "m", "a", "g">>, <<"l", "e", "n">>,
   <<"m", "a", "k", "e">>, <<"n", "e", "w">>, <<"p", "a", "n", "i", "c">>,
   <<"p", "r", "i", "n", "t">>, <<"p", "r", "i", "n", "t", "l", "n">>,
   <<"r", "e", "a", "l">>, <<"r", "e", "c", "o", "v", "e", "r">>}

PythonKeywordTexts ==
  {<<"F", "a", "l", "s", "e">>, <<"N", "o", "n", "e">>, <<"T", "r", "u", "e">>,
   <<"a", "n", "d">>, <<"a", "s">>, <<"a", "s", "s", "e", "r", "t">>,
   <<"a", "s", "y", "n", "c">>, <<"a", "w", "a", "i", "t">>,
   <<"b", "r", "e", "a", "k">>, <<"c", "l", "a", "s", "s">>,
   <<"c", "o", "n", "t", "i", "n", "u", "e">>, <<"d", "e", "f">>, <<"d", "e", "l">>,
   <<"e", "l", "i", "f">>, <<"e", "l", "s", "e">>, <<"e", "x", "c", "e", "p", "t">>,
   <<"f", "i", "n", "a", "l", "l", "y">>, <<"f", "o", "r">>, <<"f", "r", "o", "m">>,
   <<"g", "l", "o", "b", "a", "l">>, <<"i", "f">>, <<"i", "m", "p", "o", "r", "t">>,
   <<"i", "n">>, <<"i", "s">>, <<"l", "a", "m", "b", "d", "a">>,
   <<"n", "o", "n", "l", "o", "c", "a", "l">>, <<"n", "o", "t">>, <<"o", "r">>,
   <<"p", "a", "s", "s">>, <<"r", "a", "i", "s", "e">>,
   <<"r", "e", "t", "u", "r", "n">>, <<"t", "r", "y">>, <<"w", "h", "i", "l", "e">>,
   <<"w", "i", "t", "h">>, <<"y", "i", "e", "l", "d">>, <<"a", "b", "s">>,
   <<"a", "l", "l">>, <<"a", "n", "y">>, <<"a", "s", "c", "i", "i">>,
   <<"b", "i", "n">>, <<"b", "o", "o", "l">>,
   <<"b", "y", "t", "e", "a", "r", "r", "a", "y">>, <<"b", "y", "t", "e", "s">>,
   <<"c", "a", "l", "l", "a", "b", "l", "e">>, <<"c", "h", "r">>,
   <<"c", "l", "a", "s", "s", "m", "e", "t", "h", "o", "d">>,
   <<"c", "o", "m", "p", "i", "l", "e">>, <<"c", "o", "m", "p", "l", "e", "x">>,
   <<"d", "e", "l", "a", "t", "t", "r">>, <<"d", "i", "c", "t">>, <<"d", "i", "r">>,
   <<"d", "i", "v", "m", "o", "d">>, <<"e", "n", "u", "m", "e", "r", "a", "t", "e">>,
   <<"e", "v", "a", "l">>, <<"e", "x", "e", "c">>, <<"f", "i", "l", "t", "e", "r">>,
   <<"f", "l", "o", "a", "t">>, <<"f", "o", "r", "m", "a", "t">>,
   <<"f", "r", "o", "z", "e", "n", "s", "e", "t">>,
   <<"g", "e", "t", "a", "t", "t", "r">>, <<"g", "l", "o", "b", "a", "l", "s">>,
   <<"h", "a", "s", "a", "t", "t", "r">>, <<"h", "a", "s", "h">>,
   <<"h", "e", "l", "p">>, <<"h", "e", "x">>, <<"i", "d">>,
   <<"i", "n", "p", "u", "t">>, <<"i", "n", "t">>,
   <<"i", "s", "i", "n", "s", "t", "a", "n", "c", "e">>,
   <<"i", "s", "s", "u", "b", "c", "l", "a", "s", "s">>, <<"i", "t", "e", "r">>,
   <<"l", "e", "n">>, <<"l", "i", "s", "t">>, <<"l", "o", "c", "a", "l", "s">>,
   <<"m", "a", "p">>, <<"m", "a", "x">>,
   <<"m", "e", "m", "o", "r", "y", "v", "i", "e", "w">>, <<"m", "i", "n">>,
   <<"n", "e", "x", "t">>, <<"o", "b", "j", "e", "c", "t">>, <<"o", "c", "t">>,
   <<"o", "p", "e", "n">>, <<"o", "r", "d">>, <<"p", "o", "w">>,
   <<"p", "r", "i", "n", "t">>, <<"p", "r", "o", "p", "e", "r", "t", "y">>,
   <<"r", "a", "n", "g", "e">>, <<"r", "e", "p", "r">>,
   <<"r", "e", "v", "e", "r", "s", "e", "d">>, <<"r", "o", "u", "n", "d">>,
   <<"s", "e", "t">>, <<"s", "e", "t", "a", "t", "t", "r">>,
   <<"s", "l", "i", "c", "e">>, <<"s", "o", "r", "t", "e", "d">>,
   <<"s", "t", "a", "t", "i", "c", "m", "e", "t", "h", "o", "d">>, <<"s", "t", "r">>,
   <<"s", "u", "m">>, <<"s", "u", "p", "e", "r">>, <<"t", "u", "p", "l", "e">>,
   <<"t", "y", "p", "e">>, <<"v", "a", "r", "s">>, <<"z", "i", "p">>,
   <<"E", "x", "c", "e", "p", "t", "i", "o", "n">>,
   <<"A", "t", "t", "r", "i", "b", "u", "t", "e", "E", "r", "r", "o", "r">>,
   <<"I", "O", "E", "r", "r", "o", "r">>,
   <<"I", "m", "p", "o", "r", "t", "E", "r", "r", "o", "r">>,
   <<"I", "n", "d", "e", "x", "E", "r", "r", "o", "r">>,
   <<"K", "e", "y", "E", "r", "r", "o", "r">>,
   <<"N", "a", "m", "e", "E", "r", "r", "o", "r">>,
   <<"R", "u", "n", "t", "i", "m", "e", "E", "r", "r", "o", "r">>,
   <<"S", "y", "n", "t", "a", "x", "E", "r", "r", "o", "r">>,
   <<"T", "y", "p", "e", "E", "r", "r", "o", "r">>,
   <<"V", "a", "l", "u", "e", "E", "r", "r", "o", "r">>,
   <<"Z", "e", "r", "o", "D", "i", "v", "i", "s", "i", "o", "n", "E", "r", "r", "o", "r">>,
   <<"N", "o", "t", "I", "m", "p", "l", "e", "m", "e", "n", "t", "e", "d">>,
   <<"E", "l", "l", "i", "p", "s", "i", "s">>,
   <<"_", "_", "d", "e", "b", "u", "g", "_", "_">>,
   <<"_", "_", "i", "n", "i", "t", "_", "_">>, <<"_", "_", "s", "t", "r", "_", "_">>,
   <<"_", "_", "r", "e", "p", "r", "_", "_">>, <<"_", "_", "l", "e", "n", "_", "_">>,
   <<"_", "_", "g", "e", "t", "i", "t", "e", "m", "_", "_">>,
   <<"_", "_", "s", "e", "t", "i", "t", "e", "m", "_", "_">>,
   <<"_", "_", "d", "e", "l", "i", "t", "e", "m", "_", "_">>,
   <<"_", "_", "c", "o", "n", "t", "a", "i", "n", "s", "_", "_">>,
   <<"_", "_", "c", "a", "l", "l", "_", "_">>,
   <<"_", "_", "e", "n", "t", "e", "r", "_", "_">>,
   <<"_", "_", "e", "x", "i", "t", "_", "_">>,
   <<"_", "_", "i", "t", "e", "r", "_", "_">>,
   <<"_", "_", "n", "e", "x", "t", "_", "_">>}

DartKeywordTexts ==
  {<<"a", "b", "s", "t", "r", "a", "c", "t">>, <<"a", "s">>,
   <<"a", "s", "s", "e", "r", "t">>, <<"a", "s", "y", "n", "c">>,
   <<"a", "w", "a", "i", "t">>, <<"b", "a", "s", "e">>, <<"b", "r", "e", "a", "k">>,
   <<"c", "a", "s", "e">>, <<"c", "a", "t", "c", "h">>, <<"c", "l", "a", "s", "s">>,
   <<"c", "o", "n", "s", "t">>, <<"c", "o", "n", "t", "i", "n", "u", "e">>,
   <<"c", "o", "v", "a", "r", "i", "a", "n", "t">>,
   <<"d", "e", "f", "a", "u", "l", "t">>, <<"d", "e", "f", "e", "r", "r", "e", "d">>,
   <<"d", "o">>, <<"d", "y", "n", "a", "m", "i", "c">>, <<"e", "l", "s", "e">>,
   <<"e", "n", "u", "m">>, <<"e", "x", "p", "o", "r", "t">>,
   <<"e", "x", "t", "e", "n", "d", "s">>,
   <<"e", "x", "t", "e", "n", "s", "i", "o", "n">>,
   <<"e", "x", "t", "e", "r", "n", "a", "l">>, <<"f", "a", "c", "t", "o", "r", "y">>,
   <<"f", "a", "l", "s", "e">>, <<"f", "i", "n", "a", "l">>,
   <<"f", "i", "n", "a", "l", "l", "y">>, <<"f", "o", "r">>,
   <<"F", "u", "n", "c", "t", "i", "o", "n">>, <<"g", "e", "t">>,
   <<"h", "i", "d", "e">>, <<"i", "f">>,
   <<"i", "m", "p", "l", "e", "m", "e", "n", "t", "s">>,
   <<"i", "m", "p", "o", "r", "t">>, <<"i", "n">>,
   <<"i", "n", "t", "e", "r", "f", "a", "c", "e">>, <<"i", "s">>,
   <<"l", "a", "t", "e">>, <<"l", "i", "b", "r", "a", "r", "y">>,
   <<"m", "i", "x", "i", "n">>, <<"n", "e", "w">>, <<"n", "u", "l", "l">>,
   <<"o", "f">>, <<"o", "n">>, <<"o", "p", "e", "r", "a", "t", "o", "r">>,
   <<"p", "a", "r", "t">>, <<"r", "e", "q", "u", "i", "r", "e", "d">>,
   <<"r", "e", "t", "h", "r", "o", "w">>, <<"r", "e", "t", "u", "r", "n">>,
   <<"s", "e", "a", "l", "e", "d">>, <<"s", "e", "t">>, <<"s", "h", "o", "w">>,
   <<"s", "t", "a", "t", "i", "c">>, <<"s", "u", "p", "e", "r">>,
   <<"s", "w", "i", "t", "c", "h">>, <<"s", "y", "n", "c">>, <<"t", "h", "i", "s">>,
   <<"t", "h", "r", "o", "w">>, <<"t", "r", "u", "e">>, <<"t", "r", "y">>,
   <<"t", "y", "p", "e">>, <<"t", "y", "p", "e", "d", "e", "f">>, <<"v", "a", "r">>,
   <<"v", "o", "i", "d">>, <<"w", "h", "e", "n">>, <<"w", "i", "t", "h">>,
   <<"w", "h", "i", "l", "e">>, <<"y", "i", "e", "l", "d">>, <<"i", "n", "t">>,
   <<"d", "o", "u", "b", "l", "e">>, <<"n", "u", "m">>, <<"b", "o", "o", "l">>,
   <<"S", "t", "r", "i", "n", "g">>, <<"L", "i", "s", "t">>, <<"M", "a", "p">>,
   <<"S", "e", "t">>, <<"O", "b", "j", "e", "c", "t">>, <<"N", "u", "l", "l">>}

KeywordTexts(l) ==
  CASE l = "Rust" -> RustKeywordTexts
    [] l = "JavaScript" -> JavaScriptKeywordTexts
    [] l = "Ruby" -> RubyKeywordTexts
    [] l = "Golang" -> GoKeywordTexts
    [] l = "Python" -> PythonKeywordTexts
    [] l = "Dart" -> DartKeywordTexts

\* the String a sequence of characters makes
RECURSIVE Join(_)
Join(text) ==
  IF text = <<>> THEN "" ELSE Join(SubSeq(text, 1, Len(text) - 1)) \o text[Len(text)]

\* the text of test_string_and_comment_exclusion (multi-line comment case)
GoCommentText ==
  <<"p", "a", "c", "k", "a", "g", "e", " ", "m", "a", "i", "n", "\n",
    "/", "*", " ", "f", "u", "n", "c", " ", "v", "a", "r", " ", "c", "o", "n", "s", "t",
    " ", "*", "/", " ", "f", "u", "n", "c", " ", "r", "e", "a", "l", "(", ")", " ",
    "{", "}">>

\* the characters that open a line comment in each language
LineCommentOpener(l) == IF l \in {"Ruby", "Python"} THEN <<"#">> ELSE <<"/", "/">>

\* a line comment holding a block-comment opener, a quote and a backslash,
\* followed by a line holding one reserved word
LineCommentText(l) ==
  LineCommentOpener(l) \o <<" ", "/", "*", " ", "\"", " ", "\\", "\n", "i", "f">>

\* a triple-quoted literal holding a quote of the other kind, two quotes of the
\* opening kind, a "#" and a reserved word, followed by one reserved word
TripleQuoteText ==
  <<"\"", "\"", "\"", "'", " ", "\"", "\"", " ", "#", " ", "i", "f", " ",
    "\"", "\"", "\"", " ", "i", "f">>

\* an assignment of the empty string followed by a line holding a reserved word
EmptyStringText == <<"x", " ", "=", " ", "\"", "\"", "\n", "i", "f">>

\* the texts handed to count_keywords beside the enumerated ones
NamedTexts(l) ==
  KeywordTexts(l) \cup {w \o <<" ">> : w \in KeywordTexts(l)}
  \cup (IF l = "Golang" THEN {GoCommentText} ELSE {})
  \cup {LineCommentText(l)}
  \cup (IF l = "Python" THEN {TripleQuoteText, EmptyStringText} ELSE {})

(***************************************************************************)
(* Walker inputs: every tree of at most MaxEntries entries below a root    *)
(* directory, a root that is a single file, and a root that does not       *)
(* exist.                                                                  *)
(***************************************************************************)
MaxEntries == 3

MaxAddFile == 3

RootName == <<"p", "r", "o", "j">>

DirName == <<"s", "u", "b">>

OtherName == <<"n", ".", "t", "x", "t">>

BadName == <<"d", BadByte>>

\* two names the language's source-file predicate accepts
SourceName1(l) ==
  CASE l = "Rust" -> <<"a", ".", "r", "s">>
    [] l = "JavaScript" -> <<"a", ".", "t", "s">>
    [] l = "Ruby" -> <<"a", ".", "r", "b">>
    [] l = "Golang" -> <<"a", ".", "g", "o">>
    [] l = "Python" -> <<"a", ".", "p", "y">>
    [] l = "Dart" -> <<"a", ".", "d", "a", "r", "t">>

SourceName2(l) ==
  CASE l = "Rust" -> <<"b", ".", "r", "s">>
    [] l = "JavaScript" -> <<"b", ".", "j", "s", "x">>
    [] l = "Ruby" -> <<"G", "e", "m", "f", "i", "l", "e">>
    [] l = "Golang" -> <<"b", ".", "g", "o">>
    [] l = "Python" -> <<"_", "_", "i", "n", "i", "t", "_", "_">>
    [] l = "Dart" -> <<"b", ".", "d", "a", "r", "t">>

SourceNames(l) == {SourceName1(l), SourceName2(l)}

\* a name whose extension is a recognised one but for the case of its letters
UpperName(l) ==
  CASE l = "Rust" -> <<"x", ".", "R", "S">>
    [] l = "JavaScript" -> <<"x", ".", "T", "S">>
    [] l = "Ruby" -> <<"x", ".", "R", "B">>
    [] l = "Golang" -> <<"x", ".", "G", "O">>
    [] l = "Python" -> <<"x", ".", "P", "Y">>
    [] l = "Dart" -> <<"x", ".", "D", "a", "r", "t">>

\* a name of the language's skip list
SkipName(l) ==
  CASE l = "Rust" -> <<"t", "a", "r", "g", "e", "t">>
    [] l = "JavaScript" -> <<"d", "i", "s", "t">>
    [] l = "Ruby" -> <<"t", "m", "p">>
    [] l = "Golang" -> <<"b", "i", "n">>
    [] l = "Python" -> <<"e", "n", "v">>
    [] l = "Dart" -> <<".", "p", "u", "b">>

\* the texts a source file may hold
ShortText == <<"i", "f">>

LongText == <<"f", "o", "r", " ", "i", "f", " ", "i", "f">>

FileTexts == {ShortText, LongText}

NoText == <<>>

\* the first source name holds either text, the second one the longer text
FileNodes(l, dir) ==
  {[path |-> Append(dir, SourceName1(l)), kind |-> "file", text |-> t] : t \in FileTexts}
  \cup {[path |-> Append(dir, SourceName2(l)), kind |-> "file", text |-> LongText],
        [path |-> Append(dir, UpperName(l)), kind |-> "file", text |-> ShortText],
        [path |-> Append(dir, OtherName), kind |-> "file", text |-> NoText]}

DirNodes(l, dir) ==
  {[path |-> Append(dir, n), kind |-> "dir", text |-> NoText] :
     n \in {DirName, SkipName(l), BadName, SourceName1(l)}}

\* the nodes that can be added below a directory of the tree
NewNodes(l, tree) ==
  UNION {FileNodes(l, d.path) \cup DirNodes(l, d.path) :
           d \in {m \in tree : m.kind = "dir"}}

RECURSIVE DirTrees(_, _)
DirTrees(l, n) ==
  IF n = 0 THEN {{[path |-> <<RootName>>, kind |-> "dir", text |-> NoText]}}
  ELSE LET smaller == DirTrees(l, n - 1)
       IN  smaller \cup UNION {{t \cup {c} : c \in NewNodes(l, t)} : t \in smaller}

WellFormed(tree) == \A m, n \in tree : m.path = n.path => m = n

Trees(l) ==
  {t \in DirTrees(l, MaxEntries) : WellFormed(t)}
  \cup {{n} : n \in FileNodes(l, <<>>)}
  \cup {{}}

RootOf(tree) == IF tree = {} THEN <<RootName>> ELSE
  (CHOOSE n \in tree : Len(n.path) = 1).path

(***************************************************************************)
(* Front-end inputs: the requests, and the trees a local path or a clone   *)
(* of at most MaxRepoEntries entries holds.                                *)
(***************************************************************************)
MaxRepoEntries == 1

\* the names given for the language: every name the front ends know, dart,
\* a name of no language, and a known name in another case
LanguageArgs ==
  {<<"r", "u", "s", "t">>, <<"r", "s">>, <<"j", "s">>, <<"t", "s">>,
   <<"j", "a", "v", "a", "s", "c", "r", "i", "p", "t">>, <<"t", "y", "p", "e", "s", "c", "r", "i", "p", "t">>,
   <<"r", "u", "b", "y">>, <<"r", "b">>, <<"g", "o">>, <<"g", "o", "l", "a", "n", "g">>,
   <<"p", "y", "t", "h", "o", "n">>, <<"p", "y">>, <<"d", "a", "r", "t">>,
   <<"c", "o", "b", "o", "l">>, <<"P", "y", "t", "h", "o", "n">>}

FormatArgs == {<<>>, <<"j", "s", "o", "n">>, <<"H", "T", "M", "L">>, <<"c", "s", "v">>}

LocalPath == <<"proj">>

GitHubUrl == <<"https:", "", "github.com", "owner", "repo">>

BareGitHubUrl == <<"github.com", "owner", "repo">>

GitLabUrl == <<"http:", "", "gitlab.com", "owner", "repo">>

GitHubOwnerOnly == <<"https:", "", "github.com", "owner">>

GitLabNoOwner == <<"https:", "", "gitlab.com", "", "repo">>

GitLabMirror == <<"https:", "", "gitlab.com", "github.com", "repo">>

OtherHostUrl == <<"https:", "", "example.com", "owner", "repo">>

PathArgs ==
  {LocalPath, GitHubUrl, BareGitHubUrl, GitLabUrl, GitHubOwnerOnly, GitLabNoOwner,
   GitLabMirror, OtherHostUrl}

Requests(m) ==
  IF m = "cli"
    THEN [language : LanguageArgs \cup {<<>>}, format : {<<>>, <<"j", "s", "o", "n">>},
          path : {LocalPath, GitHubUrl}]
    ELSE [language : LanguageArgs, format : FormatArgs, path : PathArgs]

\* what git clone leaves in the temporary directory
RepoTrees(l) == {t \in DirTrees(l, MaxRepoEntries) : WellFormed(t)}

\* what a local path may name: a directory, a single file, nothing
LocalTrees(l) == RepoTrees(l) \cup {{n} : n \in FileNodes(l, <<>>)} \cup {{}}

BlankScan == [ScanStart EXCEPT !.returned = TRUE]

vars ==
  <<mode, lang, content, scan, fs, root, pc, stack, total_counts, file_count,
    result, outcome, reads, listed, ioFailed, added, request, format, status,
    process_id, tmp, handler>>

frontVars == <<request, format, status>>

serverVars == <<process_id, tmp, handler>>

NoServer ==
  /\ process_id = 0
  /\ tmp = <<>>
  /\ handler = <<>>

scanVars == <<content, scan>>

walkVars ==
  <<fs, root, pc, stack, total_counts, file_count, result, outcome, reads, listed,
    ioFailed, added>>

\* the entry points that call analyze_path
WalkModes == {"walk", "cli", "api"}

\* no front end takes part: analyze_path is called on a local path
NoRequest ==
  /\ request = [language |-> <<>>, format |-> <<>>, path |-> <<"proj">>]
  /\ format = "none"
  /\ status = 0

NoWalk ==
  /\ fs = {}
  /\ root = <<RootName>>
  /\ pc = "idle"
  /\ stack = <<>>
  /\ total_counts = EmptyMap
  /\ file_count = 0
  /\ result = NewAnalysisResult(lang)
  /\ outcome = "none"
  /\ reads = <<>>
  /\ listed = <<>>
  /\ ioFailed = FALSE
  /\ added = <<>>
  /\ NoRequest

(***************************************************************************)
(* count_keywords, one loop iteration at a time                            *)
(***************************************************************************)
InitScan ==
  /\ mode = "scan"
  /\ lang \in Languages
  /\ content \in Texts(lang, MaxPieces) \cup NamedTexts(lang)
  /\ scan = ScanStart
  /\ NoWalk
  /\ NoServer

\* one iteration of the loop of count_keywords
ScanChar ==
  /\ mode = "scan"
  /\ ~scan.returned
  /\ scan.pos <= Len(content)
  /\ scan' = ScanStep(lang, content, scan)
  /\ UNCHANGED <<mode, lang, content>>
  /\ UNCHANGED walkVars
  /\ UNCHANGED frontVars
  /\ UNCHANGED serverVars

\* the iterator is exhausted: final flush, counts returned
ScanEnd ==
  /\ mode = "scan"
  /\ ~scan.returned
  /\ scan.pos > Len(content)
  /\ scan' = ScanFinish(lang, scan)
  /\ UNCHANGED <<mode, lang, content>>
  /\ UNCHANGED walkVars
  /\ UNCHANGED frontVars
  /\ UNCHANGED serverVars

NextScan == ScanChar \/ ScanEnd

SpecScan == InitScan /\ [][NextScan]_vars

(***************************************************************************)
(* KeywordAnalyzer::analyze_path on a local path, and add_file             *)
(***************************************************************************)
InitWalk ==
  /\ mode \in {"walk", "build"}
  /\ lang \in Languages
  /\ content = <<>>
  /\ scan = BlankScan
  /\ fs \in (IF mode = "walk" THEN Trees(lang) ELSE {{}})
  /\ root = RootOf(fs)
  /\ pc = IF mode = "walk" THEN "start" ELSE "idle"
  /\ stack = <<>>
  /\ total_counts = EmptyMap
  /\ file_count = 0
  /\ result = NewAnalysisResult(lang)
  /\ outcome = "none"
  /\ reads = <<>>
  /\ listed = <<>>
  /\ ioFailed = FALSE
  /\ added = <<>>
  /\ NoRequest
  /\ NoServer

Top == stack[Len(stack)]

\* the entry leaves the directory iterator of the innermost frame
Yielded(e) == [stack EXCEPT ![Len(stack)].todo = @ \ {e}]

\* fs::read_dir(p) succeeded: a new frame iterates the entries of p
Push(frames, p) == Append(frames, [dir |-> p, todo |-> Entries(fs, p)])

\* analyze_file / the inlined read and merge, when read_to_string succeeds
ScanFile(p) ==
  /\ total_counts' = MergeCounts(total_counts, count_keywords(lang, TextOf(fs, p)))
  /\ file_count' = file_count + 1
  /\ reads' = Append(reads, p)

\* an Err is passed up by every ? to the caller of analyze_path
ReturnErr ==
  /\ pc' = "returned"
  /\ outcome' = "Err"
  /\ stack' = <<>>
  /\ ioFailed' = TRUE

\* mutant: a path that is an existing file is scanned whatever its name
StartScansAnyFile ==
  /\ mode \in WalkModes
  /\ pc = "start"
  /\ IF IsFile(fs, root)
       THEN /\ ScanFile(root)
            /\ pc' = "finish"
            /\ UNCHANGED <<stack, listed>>
       ELSE IF IsDir(fs, root)
         THEN /\ stack' = Push(stack, root)
              /\ listed' = Append(listed, root)
              /\ pc' = "walk"
              /\ UNCHANGED <<total_counts, file_count, reads>>
         ELSE /\ pc' = "finish"
              /\ UNCHANGED <<stack, listed, total_counts, file_count, reads>>
  /\ UNCHANGED <<mode, lang, fs, root, result, outcome, ioFailed, added>>
  /\ UNCHANGED scanVars
  /\ UNCHANGED frontVars
  /\ UNCHANGED serverVars

\* analyze_path up to the first step of analyze_directory on the given path
Start ==
  /\ mode \in WalkModes
  /\ pc = "start"
  /\ IF IsFile(fs, root) /\ IsSourceFile(lang, Basename(root))
       THEN /\ ScanFile(root)
            /\ pc' = "finish"
            /\ UNCHANGED <<stack, listed>>
       ELSE IF IsDir(fs, root)
         THEN /\ stack' = Push(stack, root)
              /\ listed' = Append(listed, root)
              /\ pc' = "walk"
              /\ UNCHANGED <<total_counts, file_count, reads>>
         ELSE /\ pc' = "finish"
              /\ UNCHANGED <<stack, listed, total_counts, file_count, reads>>
  /\ UNCHANGED <<mode, lang, fs, root, result, outcome, ioFailed, added>>
  /\ UNCHANGED scanVars
  /\ UNCHANGED frontVars
  /\ UNCHANGED serverVars

\* one iteration of for entry in fs::read_dir(path)? that meets no error
VisitEntry ==
  /\ mode \in WalkModes
  /\ pc = "walk"
  /\ stack # <<>>
  /\ \E e \in Top.todo :
       IF TestsDirFirst(lang) /\ IsDir(fs, e) /\ should_skip_dir(lang, Basename(e))
         THEN /\ stack' = Yielded(e)
              /\ UNCHANGED <<listed, total_counts, file_count, reads>>
       ELSE IF Descends(lang, fs, e)
         THEN /\ PathIsUtf8(e)
              /\ stack' = Push(Yielded(e), e)
              /\ listed' = Append(listed, e)
              /\ UNCHANGED <<total_counts, file_count, reads>>
       ELSE IF Scans(lang, fs, e)
         THEN /\ IsFile(fs, e)
              /\ ScanFile(e)
              /\ stack' = Yielded(e)
              /\ UNCHANGED listed
         ELSE /\ stack' = Yielded(e)
              /\ UNCHANGED <<listed, total_counts, file_count, reads>>
  /\ UNCHANGED <<mode, lang, fs, root, pc, result, outcome, ioFailed, added>>
  /\ UNCHANGED scanVars
  /\ UNCHANGED frontVars
  /\ UNCHANGED serverVars

\* mutant: the end of a subdirectory ends the whole walk
LeaveDirectoryEndsWalk ==
  /\ mode \in WalkModes
  /\ pc = "walk"
  /\ stack # <<>>
  /\ Top.todo = {}
  /\ stack' = <<>>
  /\ pc' = "finish"
  /\ UNCHANGED <<mode, lang, fs, root, total_counts, file_count, result, outcome,
                 reads, listed, ioFailed, added>>
  /\ UNCHANGED scanVars
  /\ UNCHANGED frontVars
  /\ UNCHANGED serverVars

\* the iterator of the innermost directory is exhausted: Ok(()) to the caller
LeaveDirectory ==
  /\ mode \in WalkModes
  /\ pc = "walk"
  /\ stack # <<>>
  /\ Top.todo = {}
  /\ stack' = SubSeq(stack, 1, Len(stack) - 1)
  /\ pc' = IF Len(stack) = 1 THEN "finish" ELSE "walk"
  /\ UNCHANGED <<mode, lang, fs, root, total_counts, file_count, result, outcome,
                 reads, listed, ioFailed, added>>
  /\ UNCHANGED scanVars
  /\ UNCHANGED frontVars
  /\ UNCHANGED serverVars

\* fs::read_dir(path)? is Err, on the given path or on a subdirectory entered
ReadDirFails ==
  /\ mode \in WalkModes
  /\ \/ /\ pc = "start"
        /\ ~(IsFile(fs, root) /\ IsSourceFile(lang, Basename(root)))
        /\ IsDir(fs, root)
        /\ listed' = Append(listed, root)
     \/ /\ pc = "walk"
        /\ stack # <<>>
        /\ \E e \in Top.todo :
             /\ Descends(lang, fs, e)
             /\ PathIsUtf8(e)
             /\ listed' = Append(listed, e)
  /\ ReturnErr
  /\ UNCHANGED <<mode, lang, fs, root, total_counts, file_count, result, reads, added>>
  /\ UNCHANGED scanVars
  /\ UNCHANGED frontVars
  /\ UNCHANGED serverVars

\* let entry = entry? is Err
EntryFails ==
  /\ mode \in WalkModes
  /\ pc = "walk"
  /\ stack # <<>>
  /\ Top.todo # {}
  /\ ReturnErr
  /\ UNCHANGED <<mode, lang, fs, root, total_counts, file_count, result, reads,
                 listed, added>>
  /\ UNCHANGED scanVars
  /\ UNCHANGED frontVars
  /\ UNCHANGED serverVars

\* mutant: an unreadable file is passed over and the walk goes on
ReadFileFailsSkipped ==
  /\ mode \in WalkModes
  /\ \/ /\ pc = "start"
        /\ IsFile(fs, root) /\ IsSourceFile(lang, Basename(root))
        /\ reads' = Append(reads, root)
        /\ pc' = "finish"
        /\ UNCHANGED stack
     \/ /\ pc = "walk"
        /\ stack # <<>>
        /\ \E e \in Top.todo :
             /\ Scans(lang, fs, e)
             /\ reads' = Append(reads, e)
             /\ stack' = Yielded(e)
        /\ UNCHANGED pc
  /\ ioFailed' = TRUE
  /\ UNCHANGED <<mode, lang, fs, root, total_counts, file_count, result, outcome,
                 listed, added>>
  /\ UNCHANGED scanVars
  /\ UNCHANGED frontVars
  /\ UNCHANGED serverVars

\* fs::read_to_string(path)? is Err, as it always is on a directory
ReadFileFails ==
  /\ mode \in WalkModes
  /\ \/ /\ pc = "start"
        /\ IsFile(fs, root) /\ IsSourceFile(lang, Basename(root))
        /\ reads' = Append(reads, root)
     \/ /\ pc = "walk"
        /\ stack # <<>>
        /\ \E e \in Top.todo :
             /\ Scans(lang, fs, e)
             /\ reads' = Append(reads, e)
  /\ ReturnErr
  /\ UNCHANGED <<mode, lang, fs, root, total_counts, file_count, result, listed, added>>
  /\ UNCHANGED scanVars
  /\ UNCHANGED frontVars
  /\ UNCHANGED serverVars

\* entry_path.to_str().unwrap() on a directory whose path is not UTF-8
UnwrapPanics ==
  /\ mode \in WalkModes
  /\ pc = "walk"
  /\ stack # <<>>
  /\ \E e \in Top.todo : Descends(lang, fs, e) /\ ~PathIsUtf8(e)
  /\ pc' = "panicked"
  /\ UNCHANGED <<mode, lang, fs, root, stack, total_counts, file_count, result,
                 outcome, reads, listed, ioFailed, added>>
  /\ UNCHANGED scanVars
  /\ UNCHANGED frontVars
  /\ UNCHANGED serverVars

\* mutant: a walk that scanned no file is reported as an error
ReturnErrWhenEmpty ==
  /\ mode \in WalkModes
  /\ pc = "finish"
  /\ IF file_count = 0
       THEN /\ outcome' = "Err"
            /\ UNCHANGED result
       ELSE /\ outcome' = "Ok"
            /\ result' = [result EXCEPT !.file_count = file_count,
                                        !.keyword_counts = total_counts,
                                        !.total_keywords = SumValues(total_counts)]
  /\ pc' = "returned"
  /\ fs' = AfterCleanup(request.path, fs)
  /\ UNCHANGED <<mode, lang, root, stack, total_counts, file_count, reads,
                 listed, ioFailed, added>>
  /\ UNCHANGED scanVars
  /\ UNCHANGED frontVars
  /\ UNCHANGED serverVars

\* analysis_result? was Ok: the result is filled in and returned
Return ==
  /\ mode \in WalkModes
  /\ pc = "finish"
  /\ result' = [result EXCEPT !.file_count = file_count,
                              !.keyword_counts = total_counts,
                              !.total_keywords = SumValues(total_counts)]
  /\ outcome' = "Ok"
  /\ pc' = "returned"
  /\ fs' = AfterCleanup(request.path, fs)
  /\ UNCHANGED <<mode, lang, root, stack, total_counts, file_count, reads,
                 listed, ioFailed, added>>
  /\ UNCHANGED scanVars
  /\ UNCHANGED frontVars
  /\ UNCHANGED serverVars

\* the paths and count maps handed to add_file
AddFilePaths == {<<RootName, n>> : n \in SourceNames(lang)}

AddFileCounts == {count_keywords(lang, t) : t \in FileTexts} \cup {EmptyMap}

\* one call of add_file on a result built by hand
AddFile ==
  /\ mode = "build"
  /\ Len(added) < MaxAddFile
  /\ \E p \in AddFilePaths, m \in AddFileCounts :
       /\ result' = add_file(result, p, m)
       /\ added' = Append(added, [path |-> p, counts |-> m])
  /\ UNCHANGED <<mode, lang, fs, root, pc, stack, total_counts, file_count, outcome,
                 reads, listed, ioFailed>>
  /\ UNCHANGED scanVars
  /\ UNCHANGED frontVars
  /\ UNCHANGED serverVars

NextWalk ==
  \/ Start
  \/ VisitEntry
  \/ LeaveDirectory
  \/ ReadDirFails
  \/ EntryFails
  \/ ReadFileFails
  \/ UnwrapPanics
  \/ Return
  \/ AddFile

SpecWalk == InitWalk /\ [][NextWalk]_vars

(***************************************************************************)
(* The command line (main, parse_args) and the HTTP handler                *)
(* analyze_repository, each followed by KeywordAnalyzer::analyze_path      *)
(***************************************************************************)
FrontModes == {"cli", "api"}

InitFront ==
  /\ mode \in FrontModes
  /\ request \in Requests(mode)
  /\ format = "none"
  /\ status = 0
  /\ lang = "none"
  /\ content = <<>>
  /\ scan = BlankScan
  /\ fs = {}
  /\ root = <<RootName>>
  /\ pc = IF mode = "cli" THEN "args" ELSE "language"
  /\ stack = <<>>
  /\ total_counts = EmptyMap
  /\ file_count = 0
  /\ result = NewAnalysisResult(lang)
  /\ outcome = "none"
  /\ reads = <<>>
  /\ listed = <<>>
  /\ ioFailed = FALSE
  /\ added = <<>>
  /\ NoServer

\* what no front-end step before analyze_path touches
walkState ==
  <<fs, root, stack, total_counts, file_count, result, outcome, reads, listed,
    ioFailed, added>>

\* main of the command line: parse_args, then analyze_path is called
ParseArgs ==
  /\ mode = "cli"
  /\ pc = "args"
  /\ lang' = ParseArgsLanguage(request.language)
  /\ format' = ParseArgsFormat(request.format)
  /\ pc' = "analyze"
  /\ UNCHANGED <<mode, request, status>>
  /\ UNCHANGED walkState
  /\ UNCHANGED scanVars
  /\ UNCHANGED serverVars

\* return Err(StatusCode::BAD_REQUEST), or Ok of a response with that status
Reject ==
  /\ status' = 400
  /\ pc' = "done"

\* let lang = parse_language(&request.language)?;
ParseLanguage ==
  /\ mode = "api"
  /\ pc = "language"
  /\ IF parse_language(request.language) = BAD_REQUEST
       THEN Reject /\ UNCHANGED lang
       ELSE /\ lang' = parse_language(request.language)
            /\ pc' = "format"
            /\ UNCHANGED status
  /\ UNCHANGED <<mode, request, format>>
  /\ UNCHANGED walkState
  /\ UNCHANGED scanVars
  /\ UNCHANGED serverVars

\* let format = match format_str.as_str() { .. _ => return Err(BAD_REQUEST) }
CheckFormat ==
  /\ mode = "api"
  /\ pc = "format"
  /\ IF ParseApiFormat(request.format) = BAD_REQUEST
       THEN Reject /\ UNCHANGED format
       ELSE /\ format' = ParseApiFormat(request.format)
            /\ pc' = "git_url"
            /\ UNCHANGED status
  /\ UNCHANGED <<mode, request, lang>>
  /\ UNCHANGED walkState
  /\ UNCHANGED scanVars
  /\ UNCHANGED serverVars

\* if !is_git_url(&request.repository_url) { .. 400 }
CheckGitUrl ==
  /\ mode = "api"
  /\ pc = "git_url"
  /\ IF ~is_git_url(request.path)
       THEN Reject
       ELSE pc' = "github" /\ UNCHANGED status
  /\ UNCHANGED <<mode, request, lang, format>>
  /\ UNCHANGED walkState
  /\ UNCHANGED scanVars
  /\ UNCHANGED serverVars

\* if contains("github.com") && !is_valid_github_repo_url(..) { .. 400 }
CheckGitHubUrl ==
  /\ mode = "api"
  /\ pc = "github"
  /\ IF Contains(request.path, "github.com") /\ ~is_valid_github_repo_url(request.path)
       THEN Reject
       ELSE pc' = "gitlab" /\ UNCHANGED status
  /\ UNCHANGED <<mode, request, lang, format>>
  /\ UNCHANGED walkState
  /\ UNCHANGED scanVars
  /\ UNCHANGED serverVars

\* if contains("gitlab.com") && !is_valid_gitlab_repo_url(..) { .. 400 }
CheckGitLabUrl ==
  /\ mode = "api"
  /\ pc = "gitlab"
  /\ IF Contains(request.path, "gitlab.com") /\ ~is_valid_gitlab_repo_url(request.path)
       THEN Reject
       ELSE pc' = "analyze" /\ UNCHANGED status
  /\ UNCHANGED <<mode, request, lang, format>>
  /\ UNCHANGED walkState
  /\ UNCHANGED scanVars
  /\ UNCHANGED serverVars

\* analyze_path entered: result, total_counts and file_count are fresh
EnterAnalyzePath ==
  /\ mode \in FrontModes
  /\ pc = "analyze"
  /\ result' = NewAnalysisResult(lang)
  /\ total_counts' = EmptyMap
  /\ file_count' = 0
  /\ UNCHANGED <<mode, lang, stack, reads, listed, added>>
  /\ UNCHANGED frontVars
  /\ UNCHANGED scanVars
  /\ UNCHANGED serverVars

\* analyze_path on a path that is no repository URL: the path is walked as
\* it is found
AnalyzeLocal ==
  /\ EnterAnalyzePath
  /\ ~is_git_url(request.path)
  /\ fs' \in LocalTrees(lang)
  /\ root' = RootOf(fs')
  /\ pc' = "start"
  /\ UNCHANGED <<outcome, ioFailed>>

\* clone_git_repo succeeded: the temporary directory holds the repository
CloneSucceeds ==
  /\ EnterAnalyzePath
  /\ is_git_url(request.path)
  /\ fs' \in RepoTrees(lang)
  /\ root' = RootOf(fs')
  /\ pc' = "start"
  /\ UNCHANGED <<outcome, ioFailed>>

\* clone_git_repo(path)? is Err: git could not be run or did not succeed
CloneFails ==
  /\ EnterAnalyzePath
  /\ is_git_url(request.path)
  /\ pc' = "returned"
  /\ outcome' = "Err"
  /\ ioFailed' = TRUE
  /\ UNCHANGED <<fs, root>>

\* match KeywordAnalyzer::analyze_path(..) of the handler: 200 with the
\* counts, or 500 with the error
ApiRespond ==
  /\ mode = "api"
  /\ pc = "returned"
  /\ status' = IF outcome = "Ok" THEN 200 ELSE 500
  /\ pc' = "done"
  /\ UNCHANGED <<mode, lang, request, format>>
  /\ UNCHANGED walkState
  /\ UNCHANGED scanVars
  /\ UNCHANGED serverVars

\* match KeywordAnalyzer::analyze_path(..) of main: the result or the error
\* is printed
CliReport ==
  /\ mode = "cli"
  /\ pc = "returned"
  /\ pc' = "done"
  /\ UNCHANGED <<mode, lang>>
  /\ UNCHANGED frontVars
  /\ UNCHANGED walkState
  /\ UNCHANGED scanVars
  /\ UNCHANGED serverVars

NextFront ==
  \/ ParseArgs
  \/ ParseLanguage
  \/ CheckFormat
  \/ CheckGitUrl
  \/ CheckGitHubUrl
  \/ CheckGitLabUrl
  \/ AnalyzeLocal
  \/ CloneSucceeds
  \/ CloneFails
  \/ Start
  \/ VisitEntry
  \/ LeaveDirectory
  \/ ReadDirFails
  \/ EntryFails
  \/ ReadFileFails
  \/ UnwrapPanics
  \/ Return
  \/ ApiRespond
  \/ CliReport

SpecFront == InitFront /\ [][NextFront]_vars


(***************************************************************************)
(* The API server: analyze_repository runs on the multi-threaded tokio     *)
(* runtime, so several requests are inside KeywordAnalyzer::analyze_path   *)
(* at once, all in one process.  Each call is split where another call can *)
(* run in between: before git is started, while the git child process      *)
(* runs, during the walk, and before the cleanup.  The walk itself is      *)
(* SpecWalk; here only its result matters.  git clone accepts a            *)
(* destination that does not exist or is an empty directory and refuses    *)
(* any other.                                                              *)
(***************************************************************************)
MaxHandlers == 2

MaxProcessId == 2

Handlers == 1 .. MaxHandlers

ProcessIds == 1 .. MaxProcessId

\* the repository URLs the requests name
ServerUrls == {GitHubUrl, GitLabUrl}

\* format!("/tmp/rust_analyzer_{}", std::process::id())
temp_dir(pid) == <<"/tmp/rust_analyzer_", pid>>

TempDirs == {temp_dir(pid) : pid \in ProcessIds}

IdleHandler == [pc |-> "idle", path |-> <<>>, temp_dir |-> <<>>, outcome |-> "none"]

InitServe ==
  /\ mode = "serve"
  /\ process_id \in ProcessIds
  /\ tmp = [d \in TempDirs |-> "absent"]
  /\ handler = [i \in Handlers |-> IdleHandler]
  /\ lang = "none"
  /\ content = <<>>
  /\ scan = BlankScan
  /\ NoWalk
  /\ NoRequest

serveRest == <<mode, lang, process_id>>

\* analyze_path entered with a repository URL: clone_git_repo names the
\* directory it will clone into
BeginAnalyzePath ==
  /\ mode = "serve"
  /\ \E i \in Handlers : \E url \in ServerUrls :
       /\ handler[i].pc = "idle"
       /\ is_git_url(url)
       /\ handler' = [handler EXCEPT ![i] = [pc |-> "clone", path |-> url,
                                             temp_dir |-> temp_dir(process_id),
                                             outcome |-> "none"]]
  /\ UNCHANGED tmp
  /\ UNCHANGED serveRest
  /\ UNCHANGED scanVars
  /\ UNCHANGED walkVars
  /\ UNCHANGED frontVars

\* the git child process starts: the destination is absent or empty, and it
\* is there and still empty once git has created it
GitCloneStarts ==
  /\ mode = "serve"
  /\ \E i \in Handlers :
       /\ handler[i].pc = "clone"
       /\ tmp[handler[i].temp_dir] \in {"absent", "empty"}
       /\ tmp' = [tmp EXCEPT ![handler[i].temp_dir] = "empty"]
       /\ handler' = [handler EXCEPT ![i].pc = "cloning"]
  /\ UNCHANGED serveRest
  /\ UNCHANGED scanVars
  /\ UNCHANGED walkVars
  /\ UNCHANGED frontVars

\* output.status.success(): the repository is in the directory and
\* clone_git_repo returns Ok(temp_dir)
GitCloneSucceeds ==
  /\ mode = "serve"
  /\ \E i \in Handlers :
       /\ handler[i].pc = "cloning"
       /\ tmp' = [tmp EXCEPT ![handler[i].temp_dir] = "populated"]
       /\ handler' = [handler EXCEPT ![i].pc = "walk"]
  /\ UNCHANGED serveRest
  /\ UNCHANGED scanVars
  /\ UNCHANGED walkVars
  /\ UNCHANGED frontVars

\* git cannot be run or does not succeed (it refuses a destination that is
\* not empty): clone_git_repo(path)? returns the Err
GitCloneFails ==
  /\ mode = "serve"
  /\ \E i \in Handlers :
       /\ handler[i].pc \in {"clone", "cloning"}
       /\ handler' = [handler EXCEPT ![i].pc = "returned", ![i].outcome = "Err"]
  /\ UNCHANGED tmp
  /\ UNCHANGED serveRest
  /\ UNCHANGED scanVars
  /\ UNCHANGED walkVars
  /\ UNCHANGED frontVars

\* analyze_directory returned Ok: the result is filled in
WalkSucceeds ==
  /\ mode = "serve"
  /\ \E i \in Handlers :
       /\ handler[i].pc = "walk"
       /\ handler' = [handler EXCEPT ![i].pc = "cleanup"]
  /\ UNCHANGED tmp
  /\ UNCHANGED serveRest
  /\ UNCHANGED scanVars
  /\ UNCHANGED walkVars
  /\ UNCHANGED frontVars

\* analyze_directory returned Err: analysis_result? returns it
WalkFails ==
  /\ mode = "serve"
  /\ \E i \in Handlers :
       /\ handler[i].pc = "walk"
       /\ handler' = [handler EXCEPT ![i].pc = "returned", ![i].outcome = "Err"]
  /\ UNCHANGED tmp
  /\ UNCHANGED serveRest
  /\ UNCHANGED scanVars
  /\ UNCHANGED walkVars
  /\ UNCHANGED frontVars

\* let _ = fs::remove_dir_all(&actual_path); Ok(result)
Cleanup ==
  /\ mode = "serve"
  /\ \E i \in Handlers :
       /\ handler[i].pc = "cleanup"
       /\ tmp' = [tmp EXCEPT ![handler[i].temp_dir] = "absent"]
       /\ handler' = [handler EXCEPT ![i].pc = "returned", ![i].outcome = "Ok"]
  /\ UNCHANGED serveRest
  /\ UNCHANGED scanVars
  /\ UNCHANGED walkVars
  /\ UNCHANGED frontVars

\* the response is sent and the next request can be taken
Respond ==
  /\ mode = "serve"
  /\ \E i \in Handlers :
       /\ handler[i].pc = "returned"
       /\ handler' = [handler EXCEPT ![i] = IdleHandler]
  /\ UNCHANGED tmp
  /\ UNCHANGED serveRest
  /\ UNCHANGED scanVars
  /\ UNCHANGED walkVars
  /\ UNCHANGED frontVars

NextServe ==
  \/ BeginAnalyzePath
  \/ GitCloneStarts
  \/ GitCloneSucceeds
  \/ GitCloneFails
  \/ WalkSucceeds
  \/ WalkFails
  \/ Cleanup
  \/ Respond

SpecServe == InitServe /\ [][NextServe]_vars


(***************************************************************************)
(* Properties of the scanners (checked under SpecScan)                     *)
(***************************************************************************)
\* the scanner is inside a line comment, block comment, string or triple quote
InRegion(s) ==
  s.in_string \/ s.in_single_comment \/ s.in_multi_comment \/ s.in_triple_quote

Scanning == mode = "scan" /\ ~scan.returned

\* the character the next loop iteration takes, EOF at the end of the text
Current == IF scan.pos <= Len(content) THEN content[scan.pos] ELSE EOF

\* C1: in each scanner, a step taken while the scanner is inside a line
\* comment, block comment, string literal or triple-quoted literal (the final
\* flush at the end of the text included) appends nothing to current_token and
\* changes no count.
C1_NothingCountedInsideRegion ==
  [][(Scanning /\ InRegion(scan)) =>
       /\ scan'.current_token = scan.current_token
       /\ scan'.counts = scan.counts]_vars

\* C1 witness: the reserved word if has just been read inside a comment or
\* string and nothing was counted.
C1_Witness ==
  /\ mode = "scan"
  /\ InRegion(scan)
  /\ scan.pos > 3
  /\ content[scan.pos - 2] = "i"
  /\ content[scan.pos - 1] = "f"
  /\ scan.counts = EmptyMap
  /\ scan.current_token = ""

\* a string whose delimiter is the backtick is raw in Go and JavaScript
InRawString(s) == s.in_string /\ s.string_char = Backtick

\* C2: in every scanner, a backslash met inside a non-raw string makes the
\* scanner take the following character as well, whatever it is: the string
\* stays open with the same delimiter and nothing is counted.
C2_BackslashConsumesNext ==
  [][(Scanning /\ scan.in_string /\ ~InRawString(scan) /\ Current = "\\") =>
       /\ scan'.pos = (IF scan.pos + 2 > Len(content) + 1
                         THEN Len(content) + 1 ELSE scan.pos + 2)
       /\ scan'.in_string
       /\ scan'.string_char = scan.string_char
       /\ scan'.counts = scan.counts
       /\ scan'.current_token = scan.current_token]_vars

\* the identifier characters of the language: alphanumeric and "_", "$" as
\* well in JavaScript, "?" as well in Ruby
IdentifierChar(l, c) ==
  \/ c \in Letters \cup Digits \cup {"_"}
  \/ l = "JavaScript" /\ c = "$"
  \/ l = "Ruby" /\ c = "?"

\* C3: only whole accumulated tokens are tested.  A count changes only by one
\* occurrence of the whole current_token, at a character that is not an
\* identifier character or at the end of the text, and a token is only begun
\* at the first character of an identifier run; so a reserved word that is a
\* proper part of a longer identifier run is never what is counted.
C3_OnlyWholeTokensCounted ==
  [][Scanning =>
       /\ scan'.counts # scan.counts =>
            /\ scan.current_token # ""
            /\ scan'.counts = AddCount(scan.counts, scan.current_token, 1)
            /\ ~IdentifierChar(lang, Current)
       /\ (scan.current_token = "" /\ scan'.current_token # "") =>
            /\ scan'.current_token = Current
            /\ scan.pos = 1 \/ ~IdentifierChar(lang, content[scan.pos - 1])
       /\ (scan.current_token # "" /\ scan'.current_token # scan.current_token) =>
            \/ scan'.current_token = ""
            \/ scan'.current_token = scan.current_token \o Current]_vars

\* C3 witness: a text whose only identifier run is if followed by "_", or "_"
\* followed by if, has been scanned and nothing was counted.
C3_Witness ==
  /\ mode = "scan"
  /\ scan.returned
  /\ content \in {<<"i", "f", "_">>, <<"_", "i", "f">>}
  /\ scan.counts = EmptyMap
(***************************************************************************)
(* Properties of the walk and of the aggregation (checked under SpecWalk)  *)
(***************************************************************************)
\* some directory strictly between the given path and the last component of
\* p, or p itself when self is TRUE, has a basename of the skip list
Pruned(l, p, self) ==
  \E i \in 2..(IF self THEN Len(p) ELSE Len(p) - 1) : p[i] \in SkipNames(l)

\* the files the walk is to scan: the given path when it is a matching file,
\* else the matching files that have no pruned ancestor below the given path
EligibleFiles(l, tree) ==
  {n.path : n \in {m \in tree : /\ m.kind = "file"
                                /\ IsSourceFile(l, Basename(m.path))
                                /\ ~Pruned(l, m.path, FALSE)}}

\* the directories the walk is to list
EligibleDirs(l, tree) ==
  {n.path : n \in {m \in tree : m.kind = "dir" /\ ~Pruned(l, m.path, TRUE)}}

Range(seq) == {seq[i] : i \in 1..Len(seq)}

NoDuplicates(seq) == \A i, j \in 1..Len(seq) : seq[i] = seq[j] => i = j

\* C4: no file and no directory that has a directory of the skip list among
\* its ancestors below the given path is ever read or listed, a directory of
\* the skip list is never listed, and file_count counts no such file.
C4_PrunedSubtreesNeverRead ==
  mode = "walk" =>
    /\ \A i \in 1..Len(reads) : ~Pruned(lang, reads[i], FALSE)
    /\ \A i \in 1..Len(listed) : ~Pruned(lang, listed[i], TRUE)
    /\ file_count <= Cardinality(EligibleFiles(lang, fs))
    /\ outcome = "Ok" => result.file_count <= Cardinality(EligibleFiles(lang, fs))

\* C4 witness: the walk returned Ok with one file counted although a matching
\* file lies below a directory of the skip list.
C4_Witness ==
  /\ outcome = "Ok"
  /\ result.file_count = 1
  /\ \E n \in fs : /\ n.kind = "file"
                   /\ IsSourceFile(lang, Basename(n.path))
                   /\ Pruned(lang, n.path, FALSE)

\* C5: a step in which read_dir, a directory entry or read_to_string fails
\* ends the call with Err, the AnalysisResult still as new() left it, and no
\* step follows a failure: nothing more is read or listed.
C5_FailFast ==
  [][/\ ~ioFailed
     /\ ioFailed' =>
          /\ pc' = "returned"
          /\ outcome' = "Err"
          /\ result' = NewAnalysisResult(lang)]_vars

\* C5 witness: a failure after one file had been scanned.
C5_Witness == ioFailed /\ outcome = "Err" /\ file_count = 1 /\ Len(reads) = 2

\* the paths of the scanned files, in the order of the scans or add_file calls
ScannedPaths == IF mode = "build" THEN [i \in 1..Len(added) |-> added[i].path] ELSE reads

\* the count maps of the scanned files, in the same order
ScannedCounts ==
  IF mode = "build" THEN [i \in 1..Len(added) |-> added[i].counts]
  ELSE [i \in 1..Len(reads) |-> count_keywords(lang, TextOf(fs, reads[i]))]

\* the result is one a caller can hold: built by add_file, or returned Ok
ResultProduced == mode = "build" \/ (mode = "walk" /\ outcome = "Ok")

\* C6: in every AnalysisResult returned by analyze_path or built by add_file,
\* file_count is the length of files_analyzed and files_analyzed lists the
\* scanned files in visitation order.
C6_FilesAnalyzedMatchesFileCount ==
  ResultProduced =>
    /\ result.file_count = Len(result.files_analyzed)
    /\ result.files_analyzed = ScannedPaths

RECURSIVE SumOfKey(_, _)
SumOfKey(maps, k) ==
  IF maps = <<>> THEN 0 ELSE GetCount(Head(maps), k) + SumOfKey(Tail(maps), k)

AllKeys(maps) == UNION {DOMAIN maps[i] : i \in 1..Len(maps)}

RECURSIVE SumOfAll(_, _)
SumOfAll(maps, keys) ==
  IF keys = {} THEN 0
  ELSE LET k == CHOOSE x \in keys : TRUE
       IN  SumOfKey(maps, k) + SumOfAll(maps, keys \ {k})

\* C7: in every AnalysisResult returned by analyze_path or built by add_file,
\* the keys of keyword_counts are the keys of the per-file maps, each value
\* is the sum of the per-file counts of its key, and total_keywords is the
\* sum of the values.
C7_CountsAreSums ==
  ResultProduced =>
    /\ DOMAIN result.keyword_counts = AllKeys(ScannedCounts)
    /\ \A k \in AllKeys(ScannedCounts) :
         result.keyword_counts[k] = SumOfKey(ScannedCounts, k)
    /\ result.total_keywords = SumOfAll(ScannedCounts, AllKeys(ScannedCounts))

\* C7 witness: two files scanned, with if counted in both.
C7_Witness ==
  /\ mode = "walk"
  /\ outcome = "Ok"
  /\ result.file_count = 2
  /\ result.total_keywords = 4
  /\ GetCount(result.keyword_counts, "if") = 3

\* the per-file maps merged one after the other, as analyze_file does
RECURSIVE MergeAll(_)
MergeAll(maps) ==
  IF maps = <<>> THEN EmptyMap
  ELSE MergeCounts(MergeAll(SubSeq(maps, 1, Len(maps) - 1)), maps[Len(maps)])

\* the maps in another order
Reordered(maps, perm) == [i \in 1..Len(maps) |-> maps[perm[i]]]

\* C8: the aggregate does not depend on the order of the scans: merging the
\* per-file maps in any other order gives the keyword_counts of the result,
\* and file_count is the number of maps merged.
C8_MergeOrderIndependent ==
  ResultProduced =>
    /\ \A perm \in Permutations(1..Len(ScannedCounts)) :
         MergeAll(Reordered(ScannedCounts, perm)) = result.keyword_counts
    /\ result.file_count = Len(ScannedCounts)

\* C8 witness: files with different maps were scanned, the longer text first.
C8_Witness ==
  /\ ResultProduced
  /\ Len(ScannedCounts) >= 2
  /\ DOMAIN ScannedCounts[1] = {"if", "for"}
  /\ ScannedCounts[2] = ("if" :> 1)

\* C9: when the walk returns Ok, every eligible file has been read exactly
\* once, every eligible directory (the given one included) has been listed
\* exactly once, nothing else was read or listed, and file_count is the number
\* of eligible files: 1 when the given path is itself a matching file.
C9_EveryFileOnce ==
  (mode = "walk" /\ outcome = "Ok") =>
    /\ NoDuplicates(reads)
    /\ Range(reads) = EligibleFiles(lang, fs)
    /\ NoDuplicates(listed)
    /\ Range(listed) = EligibleDirs(lang, fs)
    /\ result.file_count = Cardinality(EligibleFiles(lang, fs))
    /\ (IsFile(fs, root) /\ IsSourceFile(lang, Basename(root))) => result.file_count = 1

\* C9 witness: a walk that listed the given directory and a subdirectory,
\* scanned the one matching file of the subdirectory and passed by a
\* directory of the skip list.
C9_Witness ==
  /\ mode = "walk"
  /\ outcome = "Ok"
  /\ Len(listed) = 2
  /\ Len(reads) = 1
  /\ Len(reads[1]) = 3
  /\ result.file_count = 1
  /\ \E n \in fs : n.kind = "dir" /\ Basename(n.path) = SkipName(lang)

\* C10: when the tree holds no eligible file and no I/O call failed, the call
\* that has returned has returned Ok with file_count 0, total_keywords 0 and an
\* empty keyword_counts.
C10_NoFilesIsOk ==
  (mode = "walk" /\ pc = "returned" /\ ~ioFailed /\ EligibleFiles(lang, fs) = {}) =>
    /\ outcome = "Ok"
    /\ result.file_count = 0
    /\ result.total_keywords = 0
    /\ result.keyword_counts = EmptyMap

\* C10 witness: Ok with nothing counted, over a tree that holds a non-matching
\* file and a matching file below a directory of the skip list.
C10_Witness ==
  /\ mode = "walk"
  /\ outcome = "Ok"
  /\ result.file_count = 0
  /\ \E n \in fs : n.kind = "file" /\ Basename(n.path) = OtherName
  /\ \E n \in fs : n.kind = "file" /\ Pruned(lang, n.path, FALSE)
\* C11: the Go scanner, given the text
\* "package main\n/* func var const */ func real() {}", returns the map with
\* package counted once and func counted once, and no other key.
C11_GoCommentScenario ==
  (mode = "scan" /\ lang = "Golang" /\ content = GoCommentText /\ scan.returned)
    => scan.counts = ("package" :> 1) @@ ("func" :> 1)

\* C11, amended: real is in GOLANG_KEYWORDS (a built-in function name), so the
\* Go scanner returns package, func and real counted once each from that
\* text, and no other key: var and const, met in the comment only, are absent.
C11_GoCommentScenarioWithReal ==
  (mode = "scan" /\ lang = "Golang" /\ content = GoCommentText /\ scan.returned)
    => scan.counts = ("package" :> 1) @@ ("func" :> 1) @@ ("real" :> 1)

\* C11 witness: the Go scanner has returned from that text, having read the
\* comment to its end.
C11_Witness ==
  /\ mode = "scan"
  /\ lang = "Golang"
  /\ content = GoCommentText
  /\ scan.returned
  /\ ~scan.in_multi_comment
  /\ "func" \in DOMAIN scan.counts

\* the quote characters of the language's string arm
QuoteChars(l) ==
  IF l \in {"JavaScript", "Golang"} THEN {"\"", "'", Backtick} ELSE {"\"", "'"}

\* the number of backslashes that stand directly before index p, after index q
BackslashRun(text, q, p) ==
  Cardinality({i \in (q + 1)..(p - 1) : \A j \in i..(p - 1) : text[j] = "\\"})

\* the delimiter at index p is escaped inside the string opened at index q:
\* an odd number of backslashes stands before it (never in a raw string)
EscapedAt(text, q, p) == text[q] # Backtick /\ BackslashRun(text, q, p) % 2 = 1

\* the quote at index q is read in code and no unescaped occurrence of it
\* follows
OpenedAndNeverClosed(l, text, q) ==
  /\ text[q] \in QuoteChars(l)
  /\ \A p \in (q + 1)..Len(text) : text[p] = text[q] => EscapedAt(text, q, p)
  /\ ~InRegion(ScanFrom(l, SubSeq(text, 1, q - 1), ScanStart))

\* C12: in every scanner, when a string delimiter is opened in code and never
\* closed, count_keywords returns, the scanner is in the string opened by that
\* delimiter from there up to the end of the text, and the map returned is the
\* map of the text that precedes the opening quote.
C12_UnclosedStringSwallowsRest ==
  mode = "scan" =>
    \A q \in 1..Len(content) :
      (scan.pos > q /\ OpenedAndNeverClosed(lang, content, q)) =>
        /\ scan.in_string
        /\ scan.string_char = content[q]
        /\ scan.returned =>
              scan.counts = count_keywords(lang, SubSeq(content, 1, q - 1))

\* C12 witness: a scanner has returned from a text whose string, opened after
\* a counted if, was never closed and holds another if.
C12_Witness ==
  /\ mode = "scan"
  /\ scan.returned
  /\ scan.in_string
  /\ scan.counts = ("if" :> 1)
  /\ \E q \in 3..Len(content) :
       /\ OpenedAndNeverClosed(lang, content, q)
       /\ q + 2 <= Len(content)
       /\ content[q + 1] = "i"
       /\ content[q + 2] = "f"

\* the character about to be read stands after an odd number of backslashes,
\* inside a string that is not raw
EscapedHere ==
  scan.string_char # Backtick /\ BackslashRun(content, 0, scan.pos) % 2 = 1

\* C13: in every scanner, while a string is open, a quote character other
\* than its delimiter changes nothing but the position, and the string is
\* closed only by reading an unescaped occurrence of its delimiter.
C13_OnlyOwnDelimiterCloses ==
  [][(Scanning /\ scan.in_string) =>
       /\ (Current \in QuoteChars(lang) /\ Current # scan.string_char) =>
            scan' = [scan EXCEPT !.pos = @ + 1]
       /\ ~scan'.in_string =>
            (Current = scan.string_char /\ ~EscapedHere)]_vars

\* C13 witness: a string held the other quote character and has been closed
\* by its own delimiter, the if after it counted.
C13_Witness ==
  /\ mode = "scan"
  /\ scan.returned
  /\ ~scan.in_string
  /\ Len(content) = 5
  /\ content[1] = "\""
  /\ content[2] = "'"
  /\ content[3] = "\""
  /\ scan.counts = ("if" :> 1)

\* C14: in the Go and JavaScript scanners, inside a string delimited by
\* backticks a backslash is skipped alone, the character after it is read as
\* any other, and every backtick read there closes the string.
C14_BackslashOrdinaryInRawString ==
  [][(Scanning /\ lang \in {"Golang", "JavaScript"} /\ InRawString(scan)) =>
       /\ Current = "\\" => scan' = [scan EXCEPT !.pos = @ + 1]
       /\ Current = Backtick =>
            scan' = [scan EXCEPT !.pos = @ + 1, !.in_string = FALSE,
                                 !.string_char = NUL]]_vars

\* C14 witness: a backtick string ending in a backslash was closed by the
\* backtick after the backslash, and the if after it counted.
C14_Witness ==
  /\ mode = "scan"
  /\ lang \in {"Golang", "JavaScript"}
  /\ content = <<Backtick, "\\", Backtick, "i", "f">>
  /\ scan.returned
  /\ ~scan.in_string
  /\ scan.counts = ("if" :> 1)

\* C15: in every scanner and at every point of the scan, the returned map
\* included, every key of the count map is a word of the language's table
\* and its value is at least 1: no key is present with the value 0.
C15_KeysAreCountedKeywords ==
  mode = "scan" =>
    \A k \in DOMAIN scan.counts : k \in Keywords(lang) /\ scan.counts[k] >= 1

\* C15 witness: a text with the token if and the token if_, which is no
\* reserved word, has been scanned to its end and only if is a key.
C15_Witness ==
  /\ mode = "scan"
  /\ content = <<"i", "f", "\n", "i", "f", "_">>
  /\ scan.returned
  /\ scan.counts = ("if" :> 1)

\* a text without the space that may follow it
WithoutTrailingSpace(text) ==
  IF text # <<>> /\ text[Len(text)] = " " THEN SubSeq(text, 1, Len(text) - 1) ELSE text

\* C16: in every language count_keywords returns the empty map from the
\* empty text, and from a text that is exactly one word of the language's
\* table, followed by a space or not, the map with that word counted once and
\* no other key.  The words spelled out as texts are the words of the table.
C16_EmptyTextAndSingleKeyword ==
  (mode = "scan" /\ scan.returned) =>
    /\ content = <<>> =>
         /\ scan.counts = EmptyMap
         /\ {Join(w) : w \in KeywordTexts(lang)} = Keywords(lang)
    /\ WithoutTrailingSpace(content) \in KeywordTexts(lang) =>
         scan.counts = (Join(WithoutTrailingSpace(content)) :> 1)

\* C16 witness: the Ruby scanner has returned from the text defined?, with no
\* space after it, and counted it once.
C16_Witness ==
  /\ mode = "scan"
  /\ lang = "Ruby"
  /\ content = <<"d", "e", "f", "i", "n", "e", "d", "?">>
  /\ scan.returned
  /\ scan.counts = ("defined?" :> 1)

\* the extension of the name is a recognised one but for the case of letters
DiffersOnlyInCase(l, name) ==
  /\ HasExtension(name)
  /\ Extension(name) \notin Extensions(l)
  /\ Lowercase(Extension(name)) \in Extensions(l)

\* C17: in every language a file whose extension differs from a recognised
\* one only in the case of its letters is not a source file for the
\* language's predicate and has not been read when the walk returns.
C17_ExtensionIsCaseSensitive ==
  (mode = "walk" /\ pc = "returned") =>
    \A n \in fs :
      (n.kind = "file" /\ DiffersOnlyInCase(lang, Basename(n.path))) =>
        /\ ~IsSourceFile(lang, Basename(n.path))
        /\ n.path \notin Range(reads)

\* the names that denote one of the six languages, in lower case
SupportedLanguageNames ==
  {<<"r", "u", "s", "t">>, <<"r", "s">>, <<"j", "s">>, <<"t", "s">>,
   <<"j", "a", "v", "a", "s", "c", "r", "i", "p", "t">>, <<"t", "y", "p", "e", "s", "c", "r", "i", "p", "t">>,
   <<"r", "u", "b", "y">>, <<"r", "b">>, <<"g", "o">>, <<"g", "o", "l", "a", "n", "g">>,
   <<"p", "y", "t", "h", "o", "n">>, <<"p", "y">>, <<"d", "a", "r", "t">>}

\* a language name was given and it denotes none of the six languages
DenotesNoLanguage(name) == name # <<>> /\ Lowercase(name) \notin SupportedLanguageNames

\* C18: for the command line and for the HTTP API, a request whose language
\* name denotes no supported language is rejected before any walk starts: no
\* directory is ever listed and no file is ever read for it.
C18_UnknownLanguageRejected ==
  (mode \in FrontModes /\ DenotesNoLanguage(request.language)) =>
    listed = <<>> /\ reads = <<>>

\* the usual name of each language
UsualName(l) ==
  CASE l = "Rust" -> <<"r", "u", "s", "t">>
    [] l = "JavaScript" -> <<"j", "a", "v", "a", "s", "c", "r", "i", "p", "t">>
    [] l = "Ruby" -> <<"r", "u", "b", "y">>
    [] l = "Golang" -> <<"g", "o">>
    [] l = "Python" -> <<"p", "y", "t", "h", "o", "n">>
    [] l = "Dart" -> <<"d", "a", "r", "t">>

\* C19: each of the six languages is selected by its name through both front
\* ends: once the command line or the request is parsed, the usual name of a
\* language (dart for Dart) has selected that language and has not been
\* rejected.
C19_EachLanguageSelectable ==
  (mode \in FrontModes /\ pc \notin {"args", "language"}) =>
    \A l \in Languages :
      request.language = UsualName(l) => (lang = l /\ status # 400)

\* the validations of analyze_repository, as the claim lists them
LanguageRecognised(name) ==
  Lowercase(name) \in SupportedLanguageNames \ {<<"d", "a", "r", "t">>}

FormatAccepted(arg) == arg = <<>> \/ Lowercase(arg) \in {<<"j", "s", "o", "n">>, <<"h", "t", "m", "l">>}

GitHubShapeOk(url) == Contains(url, "github.com") => is_valid_github_repo_url(url)

GitLabShapeOk(url) == Contains(url, "gitlab.com") => is_valid_gitlab_repo_url(url)

AllValid(r) ==
  /\ LanguageRecognised(r.language)
  /\ FormatAccepted(r.format)
  /\ is_git_url(r.path)
  /\ GitHubShapeOk(r.path)
  /\ GitLabShapeOk(r.path)

\* analyze_path has been called
AnalysisStarted ==
  \/ pc \in {"analyze", "start", "walk", "finish", "returned", "panicked"}
  \/ outcome # "none"
  \/ listed # <<>>
  \/ reads # <<>>
  \/ fs # {}

\* C20: in the HTTP handler the validations are passed in order (language,
\* format, is_git_url, GitHub shape, GitLab shape), analyze_path is called
\* only when all of them have passed, and a request that fails one of them is
\* answered with status 400 without analyze_path being called.
C20_AnalysisOnlyAfterValidation ==
  mode = "api" =>
    /\ pc \in {"format", "git_url", "github", "gitlab"} =>
         LanguageRecognised(request.language)
    /\ pc \in {"git_url", "github", "gitlab"} => FormatAccepted(request.format)
    /\ pc \in {"github", "gitlab"} => is_git_url(request.path)
    /\ pc = "gitlab" => GitHubShapeOk(request.path)
    /\ AnalysisStarted => AllValid(request)
    /\ (pc = "done" /\ ~AllValid(request)) => (status = 400 /\ ~AnalysisStarted)
    /\ status = 400 => ~AllValid(request)

\* C20 witness: a request with the language Python and the format HTML, both
\* in upper or mixed case, passed every validation, the clone was walked, a
\* file was read and the answer is 200.
C20_Witness ==
  /\ mode = "api"
  /\ pc = "done"
  /\ status = 200
  /\ request.language = <<"P", "y", "t", "h", "o", "n">>
  /\ request.format = <<"H", "T", "M", "L">>
  /\ request.path = BareGitHubUrl
  /\ lang = "Python"
  /\ format = "Html"
  /\ Len(reads) = 1

\* C21: in every scanner, reading in Code state a character that is not an
\* identifier character of the language (a "/" that starts no comment
\* included) tests the token buffer against the table, counts it if it is
\* reserved, and leaves the buffer empty: two identifier runs are never joined.
C21_NonIdentifierCharFlushes ==
  [][(Scanning /\ ~InRegion(scan) /\ Current # EOF /\ ~IdentifierChar(lang, Current)) =>
       /\ scan'.current_token = ""
       /\ scan'.counts = FlushToken(lang, scan).counts]_vars

\* the flags of the scanner that are set
ActiveFlags(s) ==
  {f \in {"in_string", "in_single_comment", "in_multi_comment", "in_triple_quote"} :
     s[f]}

\* C22: in each scanner, at every position of every text, at most one of the
\* flags in_string, line comment, block comment and in_triple_quote is set
\* (with none set the scanner is in Code).
C22_ExactlyOneStateActive ==
  mode = "scan" => Cardinality(ActiveFlags(scan)) <= 1

\* C23: a line comment ends at the next newline whatever it contains: the step
\* that reads a newline inside a line comment leaves the scanner in Code state,
\* and a text made of such a comment and a following line holding one reserved
\* word returns that word counted once.
C23_LineCommentEndsAtNewline ==
  /\ [][(Scanning /\ scan.in_single_comment /\ Current = "\n") => ~InRegion(scan')]_vars
  /\ [](mode = "scan" /\ scan.returned /\ content = LineCommentText(lang) =>
          scan.counts = ("if" :> 1))

\* three consecutive quotes of the kind that opened the triple-quoted literal
\* stand at the current position
ClosingTripleHere ==
  /\ Current = scan.triple_quote_type
  /\ Peek(content, scan.pos) = Current
  /\ Peek2(content, scan.pos) = Current

\* the flags, the buffer and the counts, that is everything but the position
Flags(s) == [s EXCEPT !.pos = 0]

\* C24: in the Python scanner, while a triple-quoted literal is active, a step
\* at three consecutive quotes of the opening kind ends the literal and leaves
\* the scanner in Code state, and a step at anything else (a quote of the other
\* kind, one or two quotes of the opening kind, a "#") changes no flag, no
\* count and not the buffer; a reserved word after the closing quotes is
\* counted and the one inside the literal is not.
C24_OnlyThreeQuotesCloseTripleQuote ==
  /\ [][(Scanning /\ lang = "Python" /\ scan.in_triple_quote /\ Current # EOF) =>
          IF ClosingTripleHere
            THEN ~InRegion(scan') /\ scan'.counts = scan.counts
            ELSE Flags(scan') = Flags(scan)]_vars
  /\ [](mode = "scan" /\ scan.returned /\ content = TripleQuoteText =>
          scan.counts = ("if" :> 1))

C24_Witness ==
  /\ mode = "scan" /\ lang = "Python" /\ content = TripleQuoteText
  /\ scan.returned /\ scan.counts = ("if" :> 1)

\* exactly two adjacent identical quotes stand at the current position
TwoQuotesHere ==
  /\ Current \in {"\"", "'"}
  /\ Peek(content, scan.pos) = Current
  /\ Peek2(content, scan.pos) # Current

\* C25: in the Python scanner, two adjacent identical quotes met in Code state
\* and not followed by a third are a complete empty string literal: the step
\* that reads them leaves the scanner in Code state, and a reserved word on the
\* line after an empty string literal is counted.
C25_TwoQuotesAreEmptyString ==
  /\ [][(Scanning /\ lang = "Python" /\ ~InRegion(scan) /\ TwoQuotesHere) =>
          ~InRegion(scan')]_vars
  /\ [](mode = "scan" /\ lang = "Python" /\ scan.returned /\ content = EmptyStringText =>
          scan.counts = ("if" :> 1))

\* C30: in every scanner the token buffer is empty at every position where
\* the scanner is in a comment, a string or a triple-quoted literal, in_string
\* is set exactly when string_char is not NUL, and no step taken in such a
\* state (the one that leaves it and the one at the end of the text included)
\* changes a count.
C30_BufferEmptyOutsideCode ==
  /\ [](mode = "scan" =>
          /\ InRegion(scan) => scan.current_token = ""
          /\ scan.in_string <=> scan.string_char # NUL)
  /\ [][(mode = "scan" /\ InRegion(scan)) => scan'.counts = scan.counts]_vars

\* a string was opened right after a reserved word, which was counted on entry
C30_Witness ==
  /\ mode = "scan" /\ scan.in_string /\ scan.string_char = "\""
  /\ scan.current_token = "" /\ scan.counts = ("if" :> 1)

\* C28: every failure met during a walk is returned as Err and the walk never
\* panics, in particular not on a subdirectory that is not skipped and whose
\* path is not valid UTF-8.
C28_WalkNeverPanics ==
  mode \in WalkModes => pc # "panicked"

\* the path is neither an existing directory nor an existing file that the
\* source-file predicate of the selected language accepts
NothingToAnalyze ==
  /\ ~is_git_url(request.path)
  /\ ~IsDir(fs, root)
  /\ ~(IsFile(fs, root) /\ IsSourceFile(lang, Basename(root)))

\* C29: when the path is no repository URL and is neither an existing
\* directory nor an existing file of the selected language, analyze_path reads
\* nothing, lists nothing and returns Ok with file_count 0, total_keywords 0
\* and an empty keyword_counts.
C29_NothingToAnalyzeIsOkAndEmpty ==
  (mode \in WalkModes /\ NothingToAnalyze) =>
    /\ reads = <<>> /\ listed = <<>> /\ ~ioFailed
    /\ pc = "returned" =>
         /\ outcome = "Ok"
         /\ result.file_count = 0
         /\ result.total_keywords = 0
         /\ result.keyword_counts = EmptyMap

\* the path names an existing file that is no source file of the language
C29_Witness ==
  /\ mode \in WalkModes /\ NothingToAnalyze /\ IsFile(fs, root)
  /\ pc = "returned" /\ outcome = "Ok"
  /\ result.file_count = 0 /\ result.keyword_counts = EmptyMap

\* C27: when analyze_path was given a repository URL, nothing is left of the
\* temporary clone directory once analyze_path has returned, whether the walk
\* succeeded or failed with an I/O error (a clone that failed left nothing).
C27_CloneDirectoryRemovedOnReturn ==
  (mode \in FrontModes /\ pc \in {"returned", "done"} /\ is_git_url(request.path)) =>
    fs = {}

\* the call has a clone directory in use: git is writing it, or it is being
\* walked, or the walk is over and the cleanup is still to come
UsesCloneDirectory(i) == handler[i].pc \in {"cloning", "walk", "cleanup"}

\* C26: two analyze_path calls on repository URLs that run at once in one
\* process never use the same clone directory, and the directory a call is
\* cloning into or walking is never removed from under it.
C26_ConcurrentClonesDoNotInterfere ==
  mode = "serve" =>
    \A i \in Handlers :
      /\ \A j \in Handlers \ {i} :
           (UsesCloneDirectory(i) /\ UsesCloneDirectory(j)) =>
             handler[i].temp_dir # handler[j].temp_dir
      /\ handler[i].pc = "walk" => tmp[handler[i].temp_dir] = "populated"

====
